---- MODULE Spec2Model ----
(***************************************************************************)
(* Model of the blnav positioning server: the /locate request path         *)
(* (network/request.rs, network/handlers.rs, network/response.rs,          *)
(* network/server.rs).  The trilateration module `algorithms` is modelled  *)
(* from the written specification (sections 3 and 4); its numeric result   *)
(* is a deterministic function of its inputs whose residual is supplied by *)
(* the variable `residual`, fixed for a whole behaviour.                   *)
(*                                                                         *)
(* Confidences are per-mille integers (1.0 = 1000), distances are          *)
(* thousandths of the model's distance unit.                               *)
(***************************************************************************)
EXTENDS Integers, Sequences, FiniteSets, TLC

VARIABLES
    beacons,      \* PositioningHandler.beacons: the set of registered beacon ids
    rssi_model,   \* PositioningHandler.rssi_model
    residual,     \* numeric behaviour of the three solvers (environment, constant)
    phase,        \* position of the sequential caller: "idle" | "reading" | "parsed"
                  \* | "answered" | "repeated"
    entry,        \* how the outstanding call came in: "none" | "api" | "http"
    body,         \* Option: the JSON body of an HTTP call; None when there is none
                  \* or when it cannot be read
    request,      \* Option: the LocationRequest given to the handler
    arm,          \* the dispatch arm the handler reached for it
    response,     \* Option: the HttpResponse returned
    again,        \* Option: the HttpResponse returned when the call was made again
    lock,         \* the RwLock around the handler: wait queue, read guards, write guard
    client,       \* the concurrent /locate requests: position and locals of each
    wr,           \* the configuration writer: position and what it has updated
    data,         \* BeaconRepository.data: the map from id to Beacon
    last,         \* the last repository operation: its name, argument and result
    rwlock,       \* the RwLock around data: wait queue, read guards, write guard
    task,         \* the concurrent repository calls: position and locals of each
    history       \* the calls that left the write guard, in order, with the map each left

seqvars == <<phase, entry, body, request, arm, response, again>>
srvvars == <<lock, client, wr>>
concvars == <<rwlock, task, history>>
repovars == <<data, last, concvars>>
vars == <<beacons, rssi_model, residual, seqvars, srvvars, repovars>>

----------------------------------------------------------------------------
(* Option<T> as a sequence of length 0 or 1 *)
None == <<>>
Some(v) == <<v>>
IsSome(o) == Len(o) = 1
IsNone(o) == Len(o) = 0
Unwrap(o) == o[1]

SetMax(S) == CHOOSE m \in S : \A x \in S : x <= m
SetMin(S) == CHOOSE m \in S : \A x \in S : m <= x

----------------------------------------------------------------------------
(* Bounds and input pools *)

\* longest signal list a request carries
MaxSignals == 4

\* beacon ids a registry may hold; "X" is never registered
BeaconIds == {"A", "B", "C", "D"}

\* BeaconSignal::new (network/request.rs)
BeaconSignal_new(beacon_id, rssi) ==
    [beacon_id |-> beacon_id, beacon_name |-> None, rssi |-> rssi,
     timestamp_ms |-> None, extra |-> None]

\* the signal readings requests are built from, in pool order
SignalPool ==
    << BeaconSignal_new("A", -52),
       BeaconSignal_new("B", -77),
       BeaconSignal_new("C", -86),
       BeaconSignal_new("D", -70),
       BeaconSignal_new("X", -70),
       BeaconSignal_new("", -70),
       BeaconSignal_new("A", 0),
       BeaconSignal_new("B", 7) >>

\* index lists into the pool: non-decreasing, at most MaxSignals long
RECURSIVE PoolPicks(_, _)
PoolPicks(len, from) ==
    IF len = 0 THEN {<< >>}
    ELSE {<<i>> \o rest : i \in {from}, rest \in PoolPicks(len - 1, from)}
         \cup (IF from < Len(SignalPool) THEN PoolPicks(len, from + 1) ELSE {})

SignalLists ==
    UNION {{[k \in 1..Len(p) |-> SignalPool[p[k]]] : p \in PoolPicks(len, 1)}
           : len \in 0..MaxSignals}

AlgorithmNames == {"basic", "weighted", "least_squares", "auto", "fancy", ""}
SupportedAlgorithms == {"basic", "weighted", "least_squares", "auto"}

\* min_confidence values, per mille: below range, both ends, inside, above range
MinConfidences == {-1, 0, 500, 1000, 1001}

ClientIds == {"", "device_001", "device_002"}

Registries == {{"A", "B"}, {"A", "B", "C"}, {"A", "B", "C", "D"}}


----------------------------------------------------------------------------
(* network/request.rs *)

BeaconSignal_with_name(signal, name) == [signal EXCEPT !.beacon_name = Some(name)]
BeaconSignal_with_timestamp(signal, timestamp_ms) ==
    [signal EXCEPT !.timestamp_ms = Some(timestamp_ms)]
BeaconSignal_with_extra(signal, extra) == [signal EXCEPT !.extra = Some(extra)]

default_algorithm == "auto"
default_enable_filter == TRUE
default_enable_smoothing == FALSE
default_min_confidence == 0

\* #[derive(Default)] on LocationRequestOptions: every field takes its type's
\* default (String::default(), bool::default(), f64::default())
LocationRequestOptions_default ==
    [algorithm |-> "",
     enable_kalman_filter |-> FALSE,
     enable_smoothing |-> FALSE,
     min_confidence |-> 0,
     extra |-> None]

LocationRequest_new(client_id, signals) ==
    [client_id |-> client_id,
     device_id |-> None,
     signals |-> signals,
     request_timestamp_ms |-> None,
     options |-> [algorithm |-> "auto",
                  enable_kalman_filter |-> TRUE,
                  enable_smoothing |-> FALSE,
                  min_confidence |-> 0,
                  extra |-> None]]

\* error strings, as (kind, index, text, confidence, required)
ErrMsg(kind, idx, text) ==
    [kind |-> kind, idx |-> idx, text |-> text, confidence |-> None, required |-> None]

Ok == [ok |-> TRUE, err |-> ErrMsg("", -1, "")]
Err(e) == [ok |-> FALSE, err |-> e]

\* the signals a validation check fails on
BadSignalIdx(signals) ==
    {i \in 1..Len(signals) : signals[i].beacon_id = "" \/ signals[i].rssi > 0}

\* LocationRequest_validate without the check on client_id
LocationRequest_validate_AnyClient(req) ==
    IF Len(req.signals) = 0 THEN Err(ErrMsg("signals_empty", -1, ""))
    ELSE IF Len(req.signals) < 3 THEN Err(ErrMsg("too_few_signals", -1, ""))
    ELSE IF BadSignalIdx(req.signals) = {} THEN Ok
    ELSE LET i == SetMin(BadSignalIdx(req.signals))
         IN  IF req.signals[i].beacon_id = ""
             THEN Err(ErrMsg("beacon_id_empty", i - 1, ""))
             ELSE Err(ErrMsg("rssi_not_negative", i - 1, ""))

\* LocationRequest_validate without the check on the number of signals
LocationRequest_validate_NoCount(req) ==
    IF req.client_id = "" THEN Err(ErrMsg("client_id_empty", -1, ""))
    ELSE IF Len(req.signals) = 0 THEN Err(ErrMsg("signals_empty", -1, ""))
    ELSE IF BadSignalIdx(req.signals) = {} THEN Ok
    ELSE LET i == SetMin(BadSignalIdx(req.signals))
         IN  IF req.signals[i].beacon_id = ""
             THEN Err(ErrMsg("beacon_id_empty", i - 1, ""))
             ELSE Err(ErrMsg("rssi_not_negative", i - 1, ""))

LocationRequest_validate(req) ==
    IF req.client_id = "" THEN Err(ErrMsg("client_id_empty", -1, ""))
    ELSE IF Len(req.signals) = 0 THEN Err(ErrMsg("signals_empty", -1, ""))
    ELSE IF Len(req.signals) < 3 THEN Err(ErrMsg("too_few_signals", -1, ""))
    ELSE IF BadSignalIdx(req.signals) = {} THEN Ok
    ELSE LET i == SetMin(BadSignalIdx(req.signals))
         IN  IF req.signals[i].beacon_id = ""
             THEN Err(ErrMsg("beacon_id_empty", i - 1, ""))
             ELSE Err(ErrMsg("rssi_not_negative", i - 1, ""))

\* LocationRequestOptions_validate without the match on the algorithm name
LocationRequestOptions_validate_AnyName(opts) ==
    IF opts.min_confidence < 0 \/ opts.min_confidence > 1000
    THEN Err(ErrMsg("min_confidence_range", -1, ""))
    ELSE Ok

\* LocationRequestOptions_validate with the upper end of the range excluded
LocationRequestOptions_validate_OpenRange(opts) ==
    IF opts.min_confidence < 0 \/ opts.min_confidence >= 1000
    THEN Err(ErrMsg("min_confidence_range", -1, ""))
    ELSE IF opts.algorithm \in {"basic", "weighted", "least_squares", "auto"}
         THEN Ok
         ELSE Err(ErrMsg("unsupported_algorithm", -1, opts.algorithm))

LocationRequestOptions_validate(opts) ==
    IF opts.min_confidence < 0 \/ opts.min_confidence > 1000
    THEN Err(ErrMsg("min_confidence_range", -1, ""))
    ELSE IF opts.algorithm \in {"basic", "weighted", "least_squares", "auto"}
         THEN Ok
         ELSE Err(ErrMsg("unsupported_algorithm", -1, opts.algorithm))

\* serde: a JSON options object; a field that is absent takes the value of its
\* #[serde(default = "...")] function
DeserializeOptions(j) ==
    [algorithm |-> IF IsSome(j.algorithm) THEN Unwrap(j.algorithm) ELSE default_algorithm,
     enable_kalman_filter |-> IF IsSome(j.enable_kalman_filter)
                              THEN Unwrap(j.enable_kalman_filter) ELSE default_enable_filter,
     enable_smoothing |-> IF IsSome(j.enable_smoothing)
                          THEN Unwrap(j.enable_smoothing) ELSE default_enable_smoothing,
     min_confidence |-> IF IsSome(j.min_confidence)
                        THEN Unwrap(j.min_confidence) ELSE default_min_confidence,
     extra |-> j.extra]

\* serde: a JSON body; client_id and signals are required, device_id and
\* request_timestamp_ms are Options, and an absent options object is #[serde(default)], that is
\* LocationRequestOptions::default()
DeserializeRequest(b) ==
    IF IsNone(b.client_id) \/ IsNone(b.signals)
    THEN [ok |-> FALSE, request |-> None]
    ELSE [ok |-> TRUE,
          request |-> Some(
              [client_id |-> Unwrap(b.client_id),
               device_id |-> b.device_id,
               signals |-> Unwrap(b.signals),
               request_timestamp_ms |-> b.request_timestamp_ms,
               options |-> IF IsSome(b.options)
                           THEN DeserializeOptions(Unwrap(b.options))
                           ELSE LocationRequestOptions_default])]

----------------------------------------------------------------------------
(* network/response.rs *)

ResponseStatus_as_u16(status) ==
    CASE status = "success" -> 200
      [] status = "bad_request" -> 400
      [] status = "positioning_failed" -> 420
      [] status = "server_error" -> 500

\* PositioningResult_new with confidence and error taken in each other's place
PositioningResult_new_Swapped(point, confidence, error, algorithm, beacon_count) ==
    [point |-> point, confidence |-> error, error |-> confidence,
     algorithm |-> algorithm, beacon_count |-> beacon_count,
     timestamp_ms |-> None]

PositioningResult_new(point, confidence, error, algorithm, beacon_count) ==
    [point |-> point, confidence |-> confidence, error |-> error,
     algorithm |-> algorithm, beacon_count |-> beacon_count,
     timestamp_ms |-> None]

\* with_timestamp that returns the result as it was, without a timestamp
PositioningResult_with_timestamp_Unstamped(result, timestamp_ms) ==
    result

PositioningResult_with_timestamp(result, timestamp_ms) ==
    [result EXCEPT !.timestamp_ms = Some(timestamp_ms)]

HttpResponse_success(client_id, result) ==
    [status |-> "success", code |-> ResponseStatus_as_u16("success"),
     client_id |-> Some(client_id), result |-> Some(result),
     error_details |-> None]

HttpResponse_bad_request(error_msg) ==
    [status |-> "bad_request", code |-> ResponseStatus_as_u16("bad_request"),
     client_id |-> None, result |-> None,
     error_details |-> Some(error_msg)]

\* HttpResponse_positioning_failed with the code of a bad request
HttpResponse_positioning_failed_Code400(client_id, reason) ==
    [status |-> "positioning_failed",
     code |-> ResponseStatus_as_u16("bad_request"),
     client_id |-> Some(client_id), result |-> None,
     error_details |-> Some(reason)]

HttpResponse_positioning_failed(client_id, reason) ==
    [status |-> "positioning_failed",
     code |-> ResponseStatus_as_u16("positioning_failed"),
     client_id |-> Some(client_id), result |-> None,
     error_details |-> Some(reason)]

----------------------------------------------------------------------------
(* module algorithms (specification sections 3, 4.1 - 4.4) *)

\* the smallest distance a reading is clamped to, in thousandths of a unit
Eps == 1

\* 1000 * 10^(k/10) for k = 0..9
Pow10Tenths == <<1000, 1259, 1585, 1995, 2512, 3162, 3981, 5012, 6310, 7943>>

RECURSIVE Pow10(_)
Pow10(k) == IF k = 0 THEN 1 ELSE 10 * Pow10(k - 1)

\* log-distance model, d = 10^((rssi_ref - rssi) / (10 n)), the exponent taken
\* to a tenth of a decade; a python-fit model is the same curve with fitted
\* parameters
RSSIModel_log_distance(rssi_ref, n, unit) ==
    [kind |-> "log_distance", rssi_ref |-> rssi_ref, n |-> n, unit |-> unit]

RSSIModel_from_python_fit(a, n, unit) ==
    [kind |-> "python_fit", rssi_ref |-> a, n |-> n, unit |-> unit]

distance_of(model, rssi) ==
    LET tenths == (model.rssi_ref - rssi) \div model.n
        whole == tenths \div 10
        frac == tenths % 10
        d == IF whole >= 0
             THEN Pow10Tenths[frac + 1] * Pow10(whole)
             ELSE Pow10Tenths[frac + 1] \div Pow10(-whole)
    IN  IF d < Eps THEN Eps ELSE d

\* SignalReadings: the readings of a request keyed by beacon id
SignalReadings_new == [id \in {} |-> 0]

SignalReadings_add(readings, beacon_id, rssi) ==
    [id \in (DOMAIN readings) \cup {beacon_id} |->
        IF id = beacon_id THEN rssi ELSE readings[id]]

\* Signal binding (4.3): a reading whose id is not registered is dropped; the
\* others give (anchor, distance) rows
Binding(beacons_ref, signals, model) ==
    [a \in beacons_ref \cap DOMAIN signals |-> distance_of(model, signals[a])]

WeightPolicy(method) == IF method = "basic" THEN "uniform" ELSE "inverse_square"

\* confidence = clamp(1 - error / D_max, 0, 1), per mille
Confidence(error, d_max) ==
    LET c == 1000 - (1000 * error) \div d_max
    IN  IF c < 0 THEN 0 ELSE IF c > 1000 THEN 1000 ELSE c

\* Trilaterate failing only below two matched anchors
Trilaterate_TwoSuffice(method, beacons_ref, signals, model, num) ==
    LET rows == Binding(beacons_ref, signals, model)
        n == Cardinality(DOMAIN rows)
        fit == num[method]
    IN  IF n < 2 THEN None
        ELSE IF ~fit.ok THEN None
        ELSE LET d_max == SetMax({rows[a] : a \in DOMAIN rows})
                 c == Confidence(fit.err, d_max)
             IN  Some([point |-> [method |-> method, rows |-> rows,
                                  weights |-> WeightPolicy(method)],
                       confidence |-> IF method = "basic" /\ fit.zclamp
                                      THEN c \div 2 ELSE c,
                       error |-> fit.err,
                       method |-> method,
                       beacon_count |-> n])

\* One solver run.  num[method] is the numeric behaviour of that solver:
\* ok = FALSE when the geometry is singular or the iteration diverges, else the
\* weighted RMS residual err at the solution and (basic only) whether the
\* z-clamp fired.  The point is the symbolic solution of the rows.
Trilaterate(method, beacons_ref, signals, model, num) ==
    LET rows == Binding(beacons_ref, signals, model)
        n == Cardinality(DOMAIN rows)
        fit == num[method]
    IN  IF n < 3 THEN None
        ELSE IF ~fit.ok THEN None
        ELSE LET d_max == SetMax({rows[a] : a \in DOMAIN rows})
                 c == Confidence(fit.err, d_max)
             IN  Some([point |-> [method |-> method, rows |-> rows,
                                  weights |-> WeightPolicy(method)],
                       confidence |-> IF method = "basic" /\ fit.zclamp
                                      THEN c \div 2 ELSE c,
                       error |-> fit.err,
                       method |-> method,
                       beacon_count |-> n])

trilateration_basic(beacons_ref, signals, model, num) ==
    Trilaterate("basic", beacons_ref, signals, model, num)

trilateration_weighted(beacons_ref, signals, model, num) ==
    Trilaterate("weighted", beacons_ref, signals, model, num)

trilateration_least_squares(beacons_ref, signals, model, num) ==
    Trilaterate("least_squares", beacons_ref, signals, model, num)

Methods == {"basic", "weighted", "least_squares"}

Absent == [ok |-> FALSE, err |-> 0, zclamp |-> FALSE]
Fit(err, zclamp) == [ok |-> TRUE, err |-> err, zclamp |-> zclamp]

\* the numeric behaviours a run is checked under: exact fits, moderate
\* residuals with the z-clamp, a solver that fails, and a residual larger than
\* the largest distance (where the confidence clamps to 0)
NumericProfiles ==
    { [basic |-> Fit(0, FALSE),    weighted |-> Fit(0, FALSE),   least_squares |-> Fit(0, FALSE)],
      [basic |-> Fit(900, TRUE),   weighted |-> Fit(400, FALSE), least_squares |-> Fit(250, FALSE)],
      [basic |-> Absent,           weighted |-> Fit(9000, FALSE), least_squares |-> Fit(0, FALSE)],
      [basic |-> Fit(250, FALSE),  weighted |-> Absent,          least_squares |-> Absent] }

----------------------------------------------------------------------------
(* network/handlers.rs *)

\* step 2: the request's signals copied into a SignalReadings
RECURSIVE ConvertSignals(_, _)
ConvertSignals(signals, k) ==
    IF k = 0 THEN SignalReadings_new
    ELSE SignalReadings_add(ConvertSignals(signals, k - 1),
                            signals[k].beacon_id, signals[k].rssi)

\* Dispatch whose auto arm runs weighted for three and for four beacons
Dispatch_WeightedUpToFour(algorithm_name, beacons_ref, signals, model, num) ==
    CASE algorithm_name = "basic" ->
            [arm |-> "basic",
             result |-> trilateration_basic(beacons_ref, signals, model, num)]
      [] algorithm_name = "weighted" ->
            [arm |-> "weighted",
             result |-> trilateration_weighted(beacons_ref, signals, model, num)]
      [] algorithm_name = "least_squares" ->
            [arm |-> "least_squares",
             result |-> trilateration_least_squares(beacons_ref, signals, model, num)]
      [] algorithm_name = "auto" ->
            IF Cardinality(beacons_ref) <= 2
            THEN [arm |-> "auto_none", result |-> None]
            ELSE IF Cardinality(beacons_ref) <= 4
            THEN [arm |-> "auto_weighted",
                  result |-> trilateration_weighted(beacons_ref, signals, model, num)]
            ELSE [arm |-> "auto_least_squares",
                  result |-> trilateration_least_squares(beacons_ref, signals, model, num)]
      [] OTHER -> [arm |-> "other", result |-> None]

\* step 3: the match on the algorithm name; arm names the arm taken
Dispatch(algorithm_name, beacons_ref, signals, model, num) ==
    CASE algorithm_name = "basic" ->
            [arm |-> "basic",
             result |-> trilateration_basic(beacons_ref, signals, model, num)]
      [] algorithm_name = "weighted" ->
            [arm |-> "weighted",
             result |-> trilateration_weighted(beacons_ref, signals, model, num)]
      [] algorithm_name = "least_squares" ->
            [arm |-> "least_squares",
             result |-> trilateration_least_squares(beacons_ref, signals, model, num)]
      [] algorithm_name = "auto" ->
            IF Cardinality(beacons_ref) <= 2
            THEN [arm |-> "auto_none", result |-> None]
            ELSE IF Cardinality(beacons_ref) = 3
            THEN [arm |-> "auto_weighted",
                  result |-> trilateration_weighted(beacons_ref, signals, model, num)]
            ELSE [arm |-> "auto_least_squares",
                  result |-> trilateration_least_squares(beacons_ref, signals, model, num)]
      [] OTHER -> [arm |-> "other", result |-> None]

\* format!("{:.1}%", confidence * 100.0): whole percent and one decimal
FormatPct(per_mille) == [whole |-> per_mille \div 10, tenth |-> per_mille % 10]

LowConfidenceMsg(confidence, min_confidence) ==
    [kind |-> "low_confidence", idx |-> -1, text |-> "",
     confidence |-> Some(FormatPct(confidence)),
     required |-> Some(FormatPct(min_confidence))]

\* CheckResult that reports the algorithm name the request asked for
CheckResult_EchoName(req, positioning_result, now) ==
    IF IsSome(positioning_result)
    THEN LET loc_result == Unwrap(positioning_result)
         IN  IF loc_result.confidence < req.options.min_confidence
             THEN HttpResponse_positioning_failed(req.client_id,
                      LowConfidenceMsg(loc_result.confidence,
                                       req.options.min_confidence))
             ELSE HttpResponse_success(req.client_id,
                      PositioningResult_with_timestamp(
                          PositioningResult_new(loc_result.point,
                              loc_result.confidence, loc_result.error,
                              req.options.algorithm, loc_result.beacon_count),
                          IF IsSome(req.request_timestamp_ms)
                          THEN Unwrap(req.request_timestamp_ms) ELSE now))
    ELSE HttpResponse_positioning_failed(req.client_id,
             ErrMsg("cannot_compute", -1, ""))

\* CheckResult that reports a damped error when enable_smoothing is set
CheckResult_Smoothed(req, positioning_result, now) ==
    IF IsSome(positioning_result)
    THEN LET loc_result == Unwrap(positioning_result)
         IN  IF loc_result.confidence < req.options.min_confidence
             THEN HttpResponse_positioning_failed(req.client_id,
                      LowConfidenceMsg(loc_result.confidence,
                                       req.options.min_confidence))
             ELSE HttpResponse_success(req.client_id,
                      PositioningResult_with_timestamp(
                          PositioningResult_new(loc_result.point,
                              loc_result.confidence,
                              IF req.options.enable_smoothing
                              THEN loc_result.error \div 2 ELSE loc_result.error,
                              loc_result.method, loc_result.beacon_count),
                          IF IsSome(req.request_timestamp_ms)
                          THEN Unwrap(req.request_timestamp_ms) ELSE now))
    ELSE HttpResponse_positioning_failed(req.client_id,
             ErrMsg("cannot_compute", -1, ""))

\* CheckResult that stamps every estimate with the clock, whatever the request
\* carries
CheckResult_ClockAlways(req, positioning_result, now) ==
    IF IsSome(positioning_result)
    THEN LET loc_result == Unwrap(positioning_result)
         IN  IF loc_result.confidence < req.options.min_confidence
             THEN HttpResponse_positioning_failed(req.client_id,
                      LowConfidenceMsg(loc_result.confidence,
                                       req.options.min_confidence))
             ELSE HttpResponse_success(req.client_id,
                      PositioningResult_with_timestamp(
                          PositioningResult_new(loc_result.point,
                              loc_result.confidence, loc_result.error,
                              loc_result.method, loc_result.beacon_count),
                          now))
    ELSE HttpResponse_positioning_failed(req.client_id,
             ErrMsg("cannot_compute", -1, ""))

\* CheckResult that also fails an estimate whose confidence equals the minimum
CheckResult_Strict(req, positioning_result, now) ==
    IF IsSome(positioning_result)
    THEN LET loc_result == Unwrap(positioning_result)
         IN  IF loc_result.confidence <= req.options.min_confidence
             THEN HttpResponse_positioning_failed(req.client_id,
                      LowConfidenceMsg(loc_result.confidence,
                                       req.options.min_confidence))
             ELSE HttpResponse_success(req.client_id,
                      PositioningResult_with_timestamp(
                          PositioningResult_new(loc_result.point,
                              loc_result.confidence, loc_result.error,
                              loc_result.method, loc_result.beacon_count),
                          IF IsSome(req.request_timestamp_ms)
                          THEN Unwrap(req.request_timestamp_ms) ELSE now))
    ELSE HttpResponse_positioning_failed(req.client_id,
             ErrMsg("cannot_compute", -1, ""))

\* steps 4 - 6: the confidence check, the timestamp and the response
CheckResult(req, positioning_result, now) ==
    IF IsSome(positioning_result)
    THEN LET loc_result == Unwrap(positioning_result)
         IN  IF loc_result.confidence < req.options.min_confidence
             THEN HttpResponse_positioning_failed(req.client_id,
                      LowConfidenceMsg(loc_result.confidence,
                                       req.options.min_confidence))
             ELSE HttpResponse_success(req.client_id,
                      PositioningResult_with_timestamp(
                          PositioningResult_new(loc_result.point,
                              loc_result.confidence, loc_result.error,
                              loc_result.method, loc_result.beacon_count),
                          IF IsSome(req.request_timestamp_ms)
                          THEN Unwrap(req.request_timestamp_ms) ELSE now))
    ELSE HttpResponse_positioning_failed(req.client_id,
             ErrMsg("cannot_compute", -1, ""))

\* HandleWith that validates the options before the request
HandleWith_OptionsFirst(beacons_ref, model, num, req, now) ==
    LET v == LocationRequest_validate(req)
        o == LocationRequestOptions_validate(req.options)
    IN  IF ~o.ok
        THEN [arm |-> "not_reached", response |-> HttpResponse_bad_request(o.err)]
        ELSE IF ~v.ok
        THEN [arm |-> "not_reached", response |-> HttpResponse_bad_request(v.err)]
        ELSE LET signals == ConvertSignals(req.signals, Len(req.signals))
                 d == Dispatch(req.options.algorithm, beacons_ref, signals, model, num)
             IN  [arm |-> d.arm, response |-> CheckResult(req, d.result, now)]

\* handle_positioning_request with the handler's fields given; arm is the
\* dispatch arm reached, "not_reached" when validation returned first
HandleWith(beacons_ref, model, num, req, now) ==
    LET v == LocationRequest_validate(req)
        o == LocationRequestOptions_validate(req.options)
    IN  IF ~v.ok
        THEN [arm |-> "not_reached", response |-> HttpResponse_bad_request(v.err)]
        ELSE IF ~o.ok
        THEN [arm |-> "not_reached", response |-> HttpResponse_bad_request(o.err)]
        ELSE LET signals == ConvertSignals(req.signals, Len(req.signals))
                 d == Dispatch(req.options.algorithm, beacons_ref, signals, model, num)
             IN  [arm |-> d.arm, response |-> CheckResult(req, d.result, now)]

\* the solver an arm runs
ArmRuns(a) ==
    CASE a \in {"basic"} -> "basic"
      [] a \in {"weighted", "auto_weighted"} -> "weighted"
      [] a \in {"least_squares", "auto_least_squares"} -> "least_squares"
      [] OTHER -> "none"

----------------------------------------------------------------------------
(* network/server.rs, the /locate path taken by one request at a time *)

JsonErrorMsg == ErrMsg("json_format", -1, "")
BodyReadErrorMsg == ErrMsg("body_unreadable", -1, "")

\* handle_locate_request waits twice: for the body (hyper::body::to_bytes) and
\* for the read guard (handler.read()); the configuration can be updated at
\* either wait and between calls
Interruptible == {"idle", "reading", "parsed"}

----------------------------------------------------------------------------
(* domain/location.rs, domain/beacon.rs, error.rs *)

AppError_ValidationError(msg) == [kind |-> "ValidationError", message |-> msg]
AppError_NotFound(msg) == [kind |-> "NotFound", message |-> msg]

\* crate::error::Result
ROk(v) == [ok |-> TRUE, value |-> v]
RErr(e) == [ok |-> FALSE, error |-> e]

Location_new(x, y, z, floor, area_id) ==
    [x |-> x, y |-> y, z |-> z, floor |-> floor, area_id |-> area_id]

Location_validate(loc) ==
    IF loc.floor = "" THEN RErr(AppError_ValidationError("Floor cannot be empty"))
    ELSE IF loc.area_id = "" THEN RErr(AppError_ValidationError("Area ID cannot be empty"))
    ELSE ROk("unit")

Beacon_new(id, uuid, major, minor, location, power, interval, status) ==
    [id |-> id, uuid |-> uuid, major |-> major, minor |-> minor,
     location |-> location, power |-> power, interval |-> interval,
     status |-> status]

Beacon_validate(b) ==
    IF b.id = "" THEN RErr(AppError_ValidationError("Beacon ID cannot be empty"))
    ELSE IF b.uuid = "" THEN RErr(AppError_ValidationError("UUID cannot be empty"))
    ELSE IF b.power < -100 \/ b.power > 0
         THEN RErr(AppError_ValidationError("Power must be between -100 and 0 dBm"))
    ELSE IF b.interval <= 0
         THEN RErr(AppError_ValidationError("Interval must be greater than 0"))
    ELSE Location_validate(b.location)

----------------------------------------------------------------------------
(* infrastructure/repository/beacon_repository.rs *)

\* HashMap::insert and HashMap::remove
MapInsert(m, k, v) == [x \in (DOMAIN m) \cup {k} |-> IF x = k THEN v ELSE m[x]]
MapRemove(m, k) == [x \in (DOMAIN m) \ {k} |-> m[x]]

DefaultUuid == "FDA50693-A4E2-4FB1-AFCF-C6EB07647825"

DefaultBeacons ==
    << Beacon_new("beacon_001", DefaultUuid, 10000, 12345,
                  Location_new(100, 200, 150, "1F", "area_001"), -59, 1000, "active"),
       Beacon_new("beacon_002", DefaultUuid, 10000, 12346,
                  Location_new(500, 200, 150, "1F", "area_001"), -59, 1000, "active"),
       Beacon_new("beacon_003", DefaultUuid, 10000, 12347,
                  Location_new(300, 600, 150, "1F", "area_002"), -59, 1000, "active"),
       Beacon_new("beacon_004", DefaultUuid, 10000, 12348,
                  Location_new(100, 800, 150, "1F", "area_002"), -59, 1000, "active") >>

\* the for loop of new: each default beacon inserted under its id
RECURSIVE InsertAll(_, _, _)
InsertAll(m, list, k) ==
    IF k = 0 THEN m
    ELSE MapInsert(InsertAll(m, list, k - 1), list[k].id, list[k])

BeaconRepository_new == InsertAll(<< >>, DefaultBeacons, Len(DefaultBeacons))

\* the orders in which a HashMap may hand out its values
RECURSIVE Orders(_)
Orders(S) ==
    IF S = {} THEN {<< >>}
    ELSE UNION {{<<k>> \o rest : rest \in Orders(S \ {k})} : k \in S}

\* find_all: data.values().cloned().collect(), in any iteration order
BeaconRepository_find_all(d) ==
    {ROk([i \in 1..Len(keys) |-> d[keys[i]]]) : keys \in Orders(DOMAIN d)}

BeaconRepository_find_by_id(d, id) ==
    ROk(IF id \in DOMAIN d THEN Some(d[id]) ELSE None)

\* create inserting the beacon under its uuid
BeaconRepository_create_KeyedByUuid(d, beacon) ==
    LET v == Beacon_validate(beacon)
    IN  IF ~v.ok THEN [data |-> d, result |-> v]
        ELSE [data |-> MapInsert(d, beacon.uuid, beacon), result |-> ROk(beacon)]

\* create that stores the beacon before it validates it
BeaconRepository_create_InsertFirst(d, beacon) ==
    LET v == Beacon_validate(beacon)
    IN  [data |-> MapInsert(d, beacon.id, beacon),
         result |-> IF ~v.ok THEN v ELSE ROk(beacon)]

\* create, update, delete: the store afterwards and the result
BeaconRepository_create(d, beacon) ==
    LET v == Beacon_validate(beacon)
    IN  IF ~v.ok THEN [data |-> d, result |-> v]
        ELSE [data |-> MapInsert(d, beacon.id, beacon), result |-> ROk(beacon)]

\* update that does not validate the beacon
BeaconRepository_update_Unchecked(d, beacon) ==
    IF beacon.id \notin DOMAIN d
    THEN [data |-> d, result |-> RErr(AppError_NotFound(beacon.id))]
    ELSE [data |-> MapInsert(d, beacon.id, beacon), result |-> ROk(beacon)]

\* update that inserts the beacon when its id is absent
BeaconRepository_update_Upsert(d, beacon) ==
    LET v == Beacon_validate(beacon)
    IN  IF ~v.ok THEN [data |-> d, result |-> v]
        ELSE [data |-> MapInsert(d, beacon.id, beacon), result |-> ROk(beacon)]

BeaconRepository_update(d, beacon) ==
    LET v == Beacon_validate(beacon)
    IN  IF ~v.ok THEN [data |-> d, result |-> v]
        ELSE IF beacon.id \notin DOMAIN d
             THEN [data |-> d, result |-> RErr(AppError_NotFound(beacon.id))]
        ELSE [data |-> MapInsert(d, beacon.id, beacon), result |-> ROk(beacon)]

BeaconRepository_delete(d, id) ==
    IF id \notin DOMAIN d
    THEN [data |-> d, result |-> RErr(AppError_NotFound(id))]
    ELSE [data |-> MapRemove(d, id), result |-> ROk("unit")]

BeaconRepository_count(d) == ROk(Cardinality(DOMAIN d))

----------------------------------------------------------------------------
(* Inputs *)

\* readings of the system clock, in milliseconds
ClockTimes == {5000, 5001}

\* a few signal lists for the inputs that vary everything else: one reading,
\* three registered at start-up, four, and three with one unregistered
BaseSignals == <<SignalPool[1], SignalPool[2], SignalPool[3]>>

BodySignalLists ==
    { <<SignalPool[1]>>,
      <<SignalPool[1], SignalPool[2], SignalPool[3]>>,
      <<SignalPool[1], SignalPool[2], SignalPool[3], SignalPool[4]>>,
      <<SignalPool[1], SignalPool[2], SignalPool[5]>> }

\* the ways a signal list is dressed with the fields positioning does not
\* read: BeaconSignal::with_name, with_timestamp, with_extra
Decorations == {"plain", "named", "stamped", "extra"}

Decorate(sigs, deco) ==
    [i \in 1..Len(sigs) |->
        CASE deco = "named" -> BeaconSignal_with_name(sigs[i], "RFstar")
          [] deco = "stamped" -> BeaconSignal_with_timestamp(sigs[i], 1690 + i)
          [] deco = "extra" -> BeaconSignal_with_extra(sigs[i], "note")
          [] OTHER -> sigs[i]]

\* requests that differ in nothing but the flags, the device id and the
\* dressing of the signals
AncillaryRequests ==
    {[LocationRequest_new("device_001", Decorate(BaseSignals, deco)) EXCEPT
         !.device_id = dev,
         !.options.algorithm = alg,
         !.options.enable_kalman_filter = kf,
         !.options.enable_smoothing = sm,
         !.options.extra = ex]
        : deco \in Decorations, dev \in {None, Some("phone")},
          alg \in {"auto", "basic"}, kf \in BOOLEAN, sm \in BOOLEAN,
          ex \in {None, Some("note")}}

WithOptions(req, alg, mc) ==
    [req EXCEPT !.options.algorithm = alg, !.options.min_confidence = mc]

\* every option pair with the lists above, with and without a request timestamp
OptionRequests ==
    {[WithOptions(LocationRequest_new(c, sigs), alg, mc)
         EXCEPT !.request_timestamp_ms = ts]
        : c \in ClientIds, sigs \in BodySignalLists,
          alg \in AlgorithmNames, mc \in MinConfidences,
          ts \in {None, Some(1700)}}

\* signals for the order of validation: a good one, one with an empty id, one
\* with a positive rssi, one with both
OrderPool ==
    { BeaconSignal_new("A", -52), BeaconSignal_new("", -70),
      BeaconSignal_new("B", 7), BeaconSignal_new("", 7) }

\* every list of them, in every order, with a client id or none and with
\* options that pass or fail in both fields
OrderRequests ==
    {WithOptions(LocationRequest_new(c, sigs), am[1], am[2])
        : c \in {"", "device_001"},
          sigs \in UNION {[1..len -> OrderPool] : len \in 0..MaxSignals},
          am \in {<<"auto", 0>>, <<"fancy", 1001>>}}

\* requests built as the tests build them: LocationRequest::new, then the
\* fields assigned.  Every signal list with every algorithm name for one
\* client, and the families above.
ApiRequests ==
    {WithOptions(LocationRequest_new("device_001", sigs), alg, default_min_confidence)
        : sigs \in SignalLists, alg \in AlgorithmNames}
    \cup OptionRequests
    \cup AncillaryRequests
    \cup OrderRequests

OptionOf(S) == {None} \cup {Some(x) : x \in S}

JsonOptions ==
    [algorithm : OptionOf(AlgorithmNames),
     min_confidence : OptionOf(MinConfidences),
     enable_kalman_filter : {None},
     enable_smoothing : {None},
     extra : {None}]

EmptyJsonOptions ==
    [algorithm |-> None, min_confidence |-> None,
     enable_kalman_filter |-> None, enable_smoothing |-> None, extra |-> None]

\* bodies that differ in nothing but the flags, the device id and the
\* dressing of the signals
AncillaryBodies ==
    {[client_id |-> Some("device_001"),
      device_id |-> dev,
      signals |-> Some(Decorate(BaseSignals, deco)),
      request_timestamp_ms |-> Some(1700),
      options |-> Some([EmptyJsonOptions EXCEPT
                           !.algorithm = alg,
                           !.enable_kalman_filter = kf,
                           !.enable_smoothing = sm,
                           !.extra = ex])]
        : deco \in Decorations, dev \in OptionOf({"phone"}),
          alg \in OptionOf({"basic"}), kf \in OptionOf(BOOLEAN),
          sm \in OptionOf(BOOLEAN), ex \in OptionOf({"note"})}

JsonBodies ==
    [client_id : OptionOf(ClientIds),
     device_id : {None},
     signals : OptionOf(BodySignalLists),
     request_timestamp_ms : OptionOf({1700}),
     options : OptionOf(JsonOptions)]
    \cup AncillaryBodies

RssiModels ==
    { RSSIModel_from_python_fit(-50, 4, "cm"),
      RSSIModel_log_distance(-50, 2, "m") }

\* the concurrent requests in flight
Clients == {"c1", "c2"}

IdleClient ==
    [pc |-> "idle", method |-> "", path |-> "", route |-> "none",
     inflight |-> None, body |-> None, request |-> None, snap |-> None,
     beacons_ref |-> None, model |-> None, arm |-> "not_reached",
     response |-> None, health |-> None, http_status |-> None]

----------------------------------------------------------------------------
(* The sequential system: one caller, calls answered one at a time *)

\* the repository calls that run concurrently, one of each, and a call that
\* has not started
RepoTasks == {"update", "delete", "find_all"}

IdleTask ==
    [pc |-> "idle", arg |-> None, result |-> None, keys |-> {}, seen |-> << >>]

\* main.rs: three beacons and the python-fit model
Init ==
    /\ beacons = {"A", "B", "C"}
    /\ rssi_model = RSSIModel_from_python_fit(-50, 4, "cm")
    /\ residual \in NumericProfiles
    /\ phase = "idle"
    /\ entry = "none"
    /\ body = None
    /\ request = None
    /\ arm = "not_reached"
    /\ response = None
    /\ again = None
    /\ lock = [queue |-> << >>, readers |-> {}, writing |-> FALSE]
    /\ client = [c \in Clients |-> IdleClient]
    /\ wr = [pc |-> "idle", done |-> {}]
    /\ data = BeaconRepository_new
    /\ last = [op |-> "new", arg |-> None, result |-> None]
    /\ rwlock = [queue |-> << >>, readers |-> {}, writing |-> FALSE]
    /\ task = [t \in RepoTasks |-> IdleTask]
    /\ history = << [by |-> "new", data |-> BeaconRepository_new] >>

\* Call that leaves the handler without its beacons when the request fails
Call_ForgetsOnFailure(req, now) ==
    /\ phase = "idle"
    /\ LET h == HandleWith(beacons, rssi_model, residual, req, now)
       IN  /\ arm' = h.arm
           /\ response' = Some(h.response)
           /\ beacons' = IF h.response.code = 200 THEN beacons ELSE {"A", "B"}
    /\ request' = Some(req)
    /\ body' = None
    /\ entry' = "api"
    /\ phase' = "answered"
    /\ again' = None
    /\ UNCHANGED <<rssi_model, residual, srvvars, repovars>>

\* handler.handle_positioning_request(request).await
Call(req, now) ==
    /\ phase = "idle"
    /\ LET h == HandleWith(beacons, rssi_model, residual, req, now)
       IN  /\ arm' = h.arm
           /\ response' = Some(h.response)
    /\ request' = Some(req)
    /\ body' = None
    /\ entry' = "api"
    /\ phase' = "answered"
    /\ again' = None
    /\ UNCHANGED <<beacons, rssi_model, residual, srvvars, repovars>>

\* what POST /locate is sent with: each JSON body, and a body that cannot be
\* read
PostedBodies == {Some(b) : b \in JsonBodies} \cup {None}

\* POST /locate is sent with a body that is on its way: handle_locate_request
\* starts and waits for the body
Post(sent) ==
    /\ phase = "idle"
    /\ body' = sent
    /\ entry' = "http"
    /\ phase' = "reading"
    /\ request' = None
    /\ arm' = "not_reached"
    /\ response' = None
    /\ again' = None
    /\ UNCHANGED <<beacons, rssi_model, residual, srvvars, repovars>>

\* hyper::body::to_bytes returns, then serde_json::from_slice: a body that
\* cannot be read and a body that does not parse are answered 400, each with
\* its own message; a request goes on to wait for the read guard
PostBody ==
    /\ phase = "reading"
    /\ IF IsNone(body)
       THEN /\ response' = Some(HttpResponse_bad_request(BodyReadErrorMsg))
            /\ phase' = "answered"
            /\ UNCHANGED request
       ELSE LET parsed == DeserializeRequest(Unwrap(body))
            IN  IF ~parsed.ok
                THEN /\ response' = Some(HttpResponse_bad_request(JsonErrorMsg))
                     /\ phase' = "answered"
                     /\ UNCHANGED request
                ELSE /\ request' = parsed.request
                     /\ phase' = "parsed"
                     /\ UNCHANGED response
    /\ UNCHANGED <<beacons, rssi_model, residual, entry, body, arm, again,
                   srvvars, repovars>>

\* the read guard is given: handler_lock.handle_positioning_request(request)
\* runs on the configuration of this instant and the response goes out
PostHandle(now) ==
    /\ phase = "parsed"
    /\ LET h == HandleWith(beacons, rssi_model, residual, Unwrap(request), now)
       IN  /\ arm' = h.arm
           /\ response' = Some(h.response)
    /\ phase' = "answered"
    /\ UNCHANGED <<beacons, rssi_model, residual, entry, body, request, again,
                   srvvars, repovars>>

\* the caller hands the same request to the handler a second time
CallAgain(now) ==
    /\ phase = "answered"
    /\ entry = "api"
    /\ Unwrap(request) \in OptionRequests
    /\ again' = Some(HandleWith(beacons, rssi_model, residual, Unwrap(request), now).response)
    /\ phase' = "repeated"
    /\ UNCHANGED <<beacons, rssi_model, residual, entry, body, request, arm, response,
                   srvvars, repovars>>

\* the caller takes the response
Return ==
    /\ phase \in {"answered", "repeated"}
    /\ again' = None
    /\ phase' = "idle"
    /\ entry' = "none"
    /\ body' = None
    /\ request' = None
    /\ arm' = "not_reached"
    /\ response' = None
    /\ UNCHANGED <<beacons, rssi_model, residual, srvvars, repovars>>

\* PositioningHandler::update_beacons
UpdateBeacons(b) ==
    /\ phase \in Interruptible
    /\ beacons' = b
    /\ UNCHANGED <<rssi_model, residual, seqvars, srvvars, repovars>>

\* PositioningHandler::update_rssi_model
UpdateRssiModel(m) ==
    /\ phase \in Interruptible
    /\ rssi_model' = m
    /\ UNCHANGED <<beacons, residual, seqvars, srvvars, repovars>>

Next ==
    \/ phase = "idle" /\ \E req \in ApiRequests, now \in ClockTimes : Call(req, now)
    \/ phase = "idle" /\ \E sent \in PostedBodies : Post(sent)
    \/ PostBody
    \/ phase = "parsed" /\ \E now \in ClockTimes : PostHandle(now)
    \/ \E now \in ClockTimes : CallAgain(now)
    \/ Return
    \/ phase \in Interruptible /\ \E b \in Registries : UpdateBeacons(b)
    \/ phase \in Interruptible /\ \E m \in RssiModels : UpdateRssiModel(m)

Spec == Init /\ [][Next]_vars

----------------------------------------------------------------------------
(* The concurrent server: /locate requests under the handler's RwLock, and a
   writer that takes the write guard to update the configuration *)

\* bodies posted to the concurrent server: the start-up beacons with "auto" and
\* with "basic", four beacons, one reading only, and a body without client_id
ServerBodies ==
    { [client_id |-> Some("device_001"), device_id |-> None,
       signals |-> Some(sigs), request_timestamp_ms |-> Some(1700),
       options |-> Some([EmptyJsonOptions EXCEPT !.algorithm = Some(alg)])]
        : sigs \in {<<SignalPool[1], SignalPool[2], SignalPool[3]>>,
                    <<SignalPool[1], SignalPool[2], SignalPool[3], SignalPool[4]>>},
          alg \in {"auto", "basic"} }
    \cup
    { [client_id |-> Some("device_001"), device_id |-> None,
       signals |-> Some(<<SignalPool[1]>>),
       request_timestamp_ms |-> None, options |-> None],
      [client_id |-> None, device_id |-> None,
       signals |-> Some(<<SignalPool[1]>>),
       request_timestamp_ms |-> None, options |-> None] }

Config == [beacons |-> beacons, model |-> rssi_model]

\* CanWrite of a lock that gives a write guard while other guards are out
CanWrite_Shared(lk, who) ==
    /\ Len(lk.queue) > 0 /\ Head(lk.queue) = who

\* CanRead of an exclusive lock: no guard at all may be out
CanRead_Exclusive(lk, who) ==
    /\ Len(lk.queue) > 0 /\ Head(lk.queue) = who
    /\ ~lk.writing
    /\ lk.readers = {}

\* tokio RwLock: waiters are served first in, first out; a read guard is given
\* while no write guard is out, a write guard while no guard is out
CanRead(lk, who) ==
    /\ Len(lk.queue) > 0 /\ Head(lk.queue) = who
    /\ ~lk.writing

CanWrite(lk, who) ==
    /\ Len(lk.queue) > 0 /\ Head(lk.queue) = who
    /\ ~lk.writing
    /\ lk.readers = {}

\* the HTTP requests sent to the concurrent server: POST /locate with each
\* body and with a body that cannot be read, GET /health, and three requests
\* for which there is no route
HttpRequests ==
    {[method |-> "POST", path |-> "/locate", readable |-> TRUE, body |-> Some(b)]
        : b \in ServerBodies}
    \cup
    {[method |-> "POST", path |-> "/locate", readable |-> FALSE, body |-> None],
     [method |-> "GET", path |-> "/health", readable |-> TRUE, body |-> None],
     [method |-> "GET", path |-> "/locate", readable |-> TRUE, body |-> None],
     [method |-> "POST", path |-> "/health", readable |-> TRUE, body |-> None],
     [method |-> "DELETE", path |-> "/beacons", readable |-> TRUE, body |-> None]}

\* the match of handle_request on (method, path)
Route(method, path) ==
    IF method = "GET" /\ path = "/health" THEN "health"
    ELSE IF method = "POST" /\ path = "/locate" THEN "locate"
    ELSE "not_found"

\* StatusCode::from_u16
StatusCode_from_u16(code) == IF code >= 100 /\ code <= 999 THEN Some(code) ELSE None

\* handle_request up to its first await.  GET /health goes on to
\* handler.read(); POST /locate enters handle_locate_request and waits for the
\* body, which is still on its way; anything else is answered 404.
Receive(c, h) ==
    /\ client[c].pc = "idle"
    /\ LET arrived == [IdleClient EXCEPT !.method = h.method, !.path = h.path,
                                         !.route = Route(h.method, h.path)]
       IN  CASE arrived.route = "health" ->
                  /\ client' = [client EXCEPT ![c] = [arrived EXCEPT !.pc = "waiting"]]
                  /\ lock' = [lock EXCEPT !.queue = Append(@, c)]
             [] arrived.route = "locate" ->
                  /\ client' = [client EXCEPT ![c] =
                        [arrived EXCEPT !.pc = "reading",
                            !.inflight = Some([readable |-> h.readable,
                                               body |-> h.body])]]
                  /\ lock' = lock
             [] OTHER ->
                  /\ client' = [client EXCEPT ![c] =
                        [arrived EXCEPT !.pc = "replied", !.http_status = Some(404)]]
                  /\ lock' = lock
    /\ UNCHANGED <<beacons, rssi_model, residual, seqvars, repovars, wr>>

\* hyper::body::to_bytes(req.into_body()).await returns, then
\* serde_json::from_slice: a body that cannot be read or does not parse is
\* answered 400 without the lock; a request goes on to handler.read()
ReadBody(c) ==
    /\ client[c].pc = "reading"
    /\ LET sent == Unwrap(client[c].inflight)
           got == [client[c] EXCEPT !.inflight = None, !.body = sent.body]
       IN  IF ~sent.readable
           THEN /\ client' = [client EXCEPT ![c] =
                      [got EXCEPT !.pc = "replied",
                          !.response = Some(HttpResponse_bad_request(BodyReadErrorMsg)),
                          !.http_status = Some(400)]]
                /\ lock' = lock
           ELSE LET parsed == DeserializeRequest(Unwrap(sent.body))
                IN  IF ~parsed.ok
                    THEN /\ client' = [client EXCEPT ![c] =
                              [got EXCEPT !.pc = "replied",
                                  !.response = Some(HttpResponse_bad_request(JsonErrorMsg)),
                                  !.http_status = Some(400)]]
                         /\ lock' = lock
                    ELSE /\ client' = [client EXCEPT ![c] =
                              [got EXCEPT !.pc = "waiting",
                                  !.request = parsed.request]]
                         /\ lock' = [lock EXCEPT !.queue = Append(@, c)]
    /\ UNCHANGED <<beacons, rssi_model, residual, seqvars, repovars, wr>>

\* AcquireRead that takes no guard
AcquireRead_NoGuard(c) ==
    /\ client[c].pc = "waiting"
    /\ Len(lock.queue) > 0 /\ Head(lock.queue) = c
    /\ lock' = [lock EXCEPT !.queue = Tail(@)]
    /\ client' = [client EXCEPT ![c].pc = "holding", ![c].snap = Some(Config)]
    /\ UNCHANGED <<beacons, rssi_model, residual, seqvars, repovars, wr>>

\* let handler_lock = handler.read().await; snap is the configuration at that
\* instant
AcquireRead(c) ==
    /\ client[c].pc = "waiting"
    /\ CanRead(lock, c)
    /\ lock' = [lock EXCEPT !.queue = Tail(@), !.readers = @ \cup {c}]
    /\ client' = [client EXCEPT ![c].pc = "holding", ![c].snap = Some(Config)]
    /\ UNCHANGED <<beacons, rssi_model, residual, seqvars, repovars, wr>>

\* GET /health under the read guard: the beacon count and the model's
\* description are read, the guard is dropped and 200 goes out
Health(c) ==
    /\ client[c].pc = "holding"
    /\ client[c].route = "health"
    /\ lock' = [lock EXCEPT !.readers = @ \ {c}]
    /\ client' = [client EXCEPT ![c].pc = "replied",
                       ![c].health = Some([status |-> "ok",
                                           beacon_count |-> Cardinality(beacons),
                                           rssi_model |-> rssi_model]),
                       ![c].http_status = Some(200)]
    /\ UNCHANGED <<beacons, rssi_model, residual, seqvars, repovars, wr>>

\* handle_positioning_request, steps 1 - 3 up to self.beacons.all_cloned()
ReadBeacons(c) ==
    /\ client[c].pc = "holding"
    /\ client[c].route = "locate"
    /\ LET req == Unwrap(client[c].request)
           v == LocationRequest_validate(req)
           o == LocationRequestOptions_validate(req.options)
       IN  IF ~v.ok \/ ~o.ok
           THEN client' = [client EXCEPT ![c].pc = "finishing",
                    ![c].response = Some(HttpResponse_bad_request(
                                        IF ~v.ok THEN v.err ELSE o.err))]
           ELSE client' = [client EXCEPT ![c].pc = "cloned",
                    ![c].beacons_ref = Some(beacons)]
    /\ UNCHANGED <<beacons, rssi_model, residual, seqvars, repovars, lock, wr>>

\* handle_positioning_request, the rest: the algorithm runs on the cloned
\* beacons with self.rssi_model, and the response is built
Compute(c, now) ==
    /\ client[c].pc = "cloned"
    /\ \E h \in {HandleWith(Unwrap(client[c].beacons_ref), rssi_model, residual,
                           Unwrap(client[c].request), now)} :
           client' = [client EXCEPT ![c].pc = "finishing",
                          ![c].model = Some(rssi_model),
                          ![c].arm = h.arm,
                          ![c].response = Some(h.response)]
    /\ UNCHANGED <<beacons, rssi_model, residual, seqvars, repovars, lock, wr>>

\* Reply that sends every response as 200 OK
Reply_AlwaysOk(c) ==
    /\ client[c].pc = "finishing"
    /\ lock' = [lock EXCEPT !.readers = @ \ {c}]
    /\ client' = [client EXCEPT ![c].pc = "replied", ![c].http_status = Some(200)]
    /\ UNCHANGED <<beacons, rssi_model, residual, seqvars, repovars, wr>>

\* handle_locate_request returns: the status is made from response.code, the
\* read guard is dropped and the response goes out
Reply(c) ==
    /\ client[c].pc = "finishing"
    /\ lock' = [lock EXCEPT !.readers = @ \ {c}]
    /\ client' = [client EXCEPT ![c].pc = "replied",
                       ![c].http_status =
                           LET status == StatusCode_from_u16(Unwrap(client[c].response).code)
                           IN  IF IsSome(status) THEN status ELSE Some(500)]
    /\ UNCHANGED <<beacons, rssi_model, residual, seqvars, repovars, wr>>

\* the connection is done with
Close(c) ==
    /\ client[c].pc = "replied"
    /\ client' = [client EXCEPT ![c] = IdleClient]
    /\ UNCHANGED <<beacons, rssi_model, residual, seqvars, repovars, lock, wr>>

\* server.handler().write().await, asked for
BeginWrite ==
    /\ wr.pc = "idle"
    /\ wr' = [pc |-> "waiting", done |-> {}]
    /\ lock' = [lock EXCEPT !.queue = Append(@, "writer")]
    /\ UNCHANGED <<beacons, rssi_model, residual, seqvars, repovars, client>>

\* the write guard is given
AcquireWrite ==
    /\ wr.pc = "waiting"
    /\ CanWrite(lock, "writer")
    /\ lock' = [lock EXCEPT !.queue = Tail(@), !.writing = TRUE]
    /\ wr' = [wr EXCEPT !.pc = "holding"]
    /\ UNCHANGED <<beacons, rssi_model, residual, seqvars, repovars, client>>

\* guard.update_beacons(b)
WriteBeacons(b) ==
    /\ wr.pc = "holding"
    /\ "beacons" \notin wr.done
    /\ beacons' = b
    /\ wr' = [wr EXCEPT !.done = @ \cup {"beacons"}]
    /\ UNCHANGED <<rssi_model, residual, seqvars, repovars, lock, client>>

\* guard.update_rssi_model(m)
WriteModel(m) ==
    /\ wr.pc = "holding"
    /\ "model" \notin wr.done
    /\ rssi_model' = m
    /\ wr' = [wr EXCEPT !.done = @ \cup {"model"}]
    /\ UNCHANGED <<beacons, residual, seqvars, repovars, lock, client>>

\* the write guard is dropped
ReleaseWrite ==
    /\ wr.pc = "holding"
    /\ lock' = [lock EXCEPT !.writing = FALSE]
    /\ wr' = [pc |-> "idle", done |-> {}]
    /\ UNCHANGED <<beacons, rssi_model, residual, seqvars, repovars, client>>

ServerNext ==
    \/ \E c \in Clients : client[c].pc = "idle" /\ \E h \in HttpRequests : Receive(c, h)
    \/ \E c \in Clients : ReadBody(c)
    \/ \E c \in Clients : AcquireRead(c)
    \/ \E c \in Clients : Health(c)
    \/ \E c \in Clients : ReadBeacons(c)
    \/ \E c \in Clients : client[c].pc = "cloned" /\ \E now \in ClockTimes : Compute(c, now)
    \/ \E c \in Clients : Reply(c)
    \/ \E c \in Clients : Close(c)
    \/ BeginWrite
    \/ AcquireWrite
    \/ wr.pc = "holding" /\ \E b \in Registries : WriteBeacons(b)
    \/ wr.pc = "holding" /\ \E m \in RssiModels : WriteModel(m)
    \/ ReleaseWrite

SpecServer == Init /\ [][ServerNext]_vars

----------------------------------------------------------------------------
(* Properties of the sequential system *)

\* a call has been answered by the handler (the body, if any, parsed)
Handled == phase = "answered" /\ IsSome(request)
Req == Unwrap(request)
Resp == Unwrap(response)

\* the registered anchors the request's readings resolve to
Resolved == beacons \cap {Req.signals[i].beacon_id : i \in 1..Len(Req.signals)}

\* both validations passed
Validated ==
    /\ LocationRequest_validate(Req).ok
    /\ LocationRequestOptions_validate(Req.options).ok

\* the estimate the selected algorithm returned, if any
Estimate ==
    Dispatch(Req.options.algorithm, beacons,
             ConvertSignals(Req.signals, Len(Req.signals)),
             rssi_model, residual).result

\* the response the handler gives the same request under another algorithm name
ResponsesAs(alg) ==
    {HandleWith(beacons, rssi_model, residual,
                [Req EXCEPT !.options.algorithm = alg], now).response
        : now \in ClockTimes}

\* C1: a request carrying fewer than 3 signals is answered 400 "bad_request"
\* with error_details present and result absent, and no algorithm is run.
C1_TooFewSignals ==
    (Handled /\ Len(Req.signals) < 3) =>
        /\ Resp.code = 400
        /\ Resp.status = "bad_request"
        /\ IsSome(Resp.error_details)
        /\ IsNone(Resp.result)
        /\ ArmRuns(arm) = "none"

C1_Witness ==
    /\ Handled
    /\ Len(Req.signals) = 2
    /\ Req.client_id # ""
    /\ Resp.code = 400
    /\ Unwrap(Resp.error_details).kind = "too_few_signals"

\* C2 (as claimed): a request in which a signal has rssi >= 0 is rejected with
\* 400, and validate accepts a request only if every rssi is below 0.
C2_NonNegativeRejected ==
    Handled =>
        /\ (\E i \in 1..Len(Req.signals) : Req.signals[i].rssi >= 0)
               => Resp.code = 400
        /\ LocationRequest_validate(Req).ok
               => \A i \in 1..Len(Req.signals) : Req.signals[i].rssi < 0

\* C3: for a request that passes validate, an algorithm name outside the four
\* supported ones is answered 400 "bad_request"; the catch-all arm of the
\* dispatch is never reached.
C3_UnknownAlgorithm ==
    /\ arm # "other"
    /\ (Handled /\ LocationRequest_validate(Req).ok
          /\ Req.options.algorithm \notin SupportedAlgorithms) =>
            /\ Resp.code = 400
            /\ Resp.status = "bad_request"

C3_Witness ==
    /\ Handled
    /\ LocationRequest_validate(Req).ok
    /\ Req.options.algorithm = "fancy"
    /\ Req.options.min_confidence = 0
    /\ Resp.code = 400
    /\ Unwrap(Resp.error_details).kind = "unsupported_algorithm"

\* C4: LocationRequestOptions::validate returns Err for every min_confidence
\* below 0 or above 1 and, with a supported algorithm name, Ok for every
\* min_confidence in [0, 1], both ends included; for a request that passes
\* validate the handler answers 400 in the first case and not in the second.
C4_MinConfidenceRange ==
    Handled =>
        LET mc == Req.options.min_confidence
            passes == LocationRequestOptions_validate(Req.options).ok
        IN  /\ (mc < 0 \/ mc > 1000) =>
                  /\ ~passes
                  /\ Resp.code = 400
            /\ (mc >= 0 /\ mc <= 1000
                  /\ Req.options.algorithm \in SupportedAlgorithms) =>
                  /\ passes
                  /\ LocationRequest_validate(Req).ok => Resp.code # 400

C4_Witness ==
    /\ Handled
    /\ LocationRequest_validate(Req).ok
    /\ Req.options.min_confidence = 1000
    /\ Req.options.algorithm \in SupportedAlgorithms
    /\ Resp.code = 200

\* C5: when the selected algorithm returns an estimate, the response is a
\* success exactly when confidence >= min_confidence; below it the response is
\* 420 without a result and its message carries the computed confidence.
C5_ConfidenceThreshold ==
    (Handled /\ Validated /\ IsSome(Estimate)) =>
        LET est == Unwrap(Estimate)
        IN  /\ (Resp.code = 200) <=> (est.confidence >= Req.options.min_confidence)
            /\ est.confidence < Req.options.min_confidence =>
                  /\ Resp.code = 420
                  /\ Resp.status = "positioning_failed"
                  /\ IsNone(Resp.result)
                  /\ Unwrap(Resp.error_details).confidence
                        = Some(FormatPct(est.confidence))

C5_Witness ==
    /\ Handled /\ Validated /\ IsSome(Estimate)
    /\ Unwrap(Estimate).confidence = Req.options.min_confidence
    /\ Req.options.min_confidence > 0
    /\ Resp.code = 200

\* C6 (as claimed): with "auto" and exactly 3 resolved anchors the weighted
\* algorithm runs and the response is that of the same request with
\* "weighted", whatever the size of the registry.
C6_AutoThreeIsWeighted ==
    (Handled /\ Validated /\ Req.options.algorithm = "auto"
       /\ Cardinality(Resolved) = 3) =>
        /\ ArmRuns(arm) = "weighted"
        /\ Resp \in ResponsesAs("weighted")

\* C7: with "auto" and 4 or more resolved anchors the least_squares algorithm
\* runs and the response is that of the same request with "least_squares".
C7_AutoFourIsLeastSquares ==
    (Handled /\ Validated /\ Req.options.algorithm = "auto"
       /\ Cardinality(Resolved) >= 4) =>
        /\ ArmRuns(arm) = "least_squares"
        /\ Resp \in ResponsesAs("least_squares")

C7_Witness ==
    /\ Handled /\ Validated
    /\ Req.options.algorithm = "auto"
    /\ Cardinality(Resolved) = 4
    /\ Resp.code = 200
    /\ Unwrap(Resp.result).algorithm = "least_squares"

\* C8: a request that passes validation and resolves to fewer than 3 distinct
\* registered anchors is never a success: the result is absent.
C8_FewAnchorsFail ==
    (Handled /\ Validated /\ Cardinality(Resolved) < 3) =>
        /\ Resp.code # 200
        /\ IsNone(Resp.result)

C8_Witness ==
    /\ Handled /\ Validated
    /\ Cardinality(Resolved) = 2
    /\ Cardinality(beacons) >= 3
    /\ Req.options.algorithm = "least_squares"
    /\ residual["least_squares"].ok
    /\ Resp.code = 420

\* C10 (as claimed): a body without an options object is processed with the
\* options of LocationRequest::new, the same as a body with an empty options
\* object, so leaving options out does not by itself cause a 400.
C10_DefaultOptions ==
    (Handled /\ entry = "http" /\ IsNone(Unwrap(body).options)) =>
        /\ Req.options = LocationRequest_new(Req.client_id, Req.signals).options
        /\ Req.options = DeserializeOptions(EmptyJsonOptions)
        /\ (LocationRequest_validate(Req).ok => Resp.code # 400)

----------------------------------------------------------------------------
(* Properties of the concurrent server *)

\* C9: no request observes a partially-updated configuration.  From the
\* instant a request holds the read guard until it drops it, no write guard is
\* out and the configuration is the one of that instant; the beacons it cloned
\* and the model it computed with are those of that one instant.
C9_SnapshotIsolation ==
    \A c \in Clients :
        /\ client[c].pc \in {"holding", "cloned", "finishing"} =>
              /\ wr.pc # "holding"
              /\ Unwrap(client[c].snap) = Config
        /\ IsSome(client[c].beacons_ref) =>
              Unwrap(client[c].beacons_ref) = Unwrap(client[c].snap).beacons
        /\ IsSome(client[c].model) =>
              Unwrap(client[c].model) = Unwrap(client[c].snap).model

\* a request computed on a configuration a writer had replaced in full, while
\* the next writer waits for it to finish
C9_Witness ==
    \E c \in Clients :
        /\ client[c].pc = "finishing"
        /\ IsSome(client[c].model)
        /\ Unwrap(client[c].beacons_ref) = {"A", "B", "C", "D"}
        /\ Unwrap(client[c].model).kind = "log_distance"
        /\ Unwrap(client[c].response).code = 200
        /\ wr.pc = "waiting"

----------------------------------------------------------------------------
(* Two calls with the same request *)

Repeated == phase = "repeated"
Again == Unwrap(again)

\* the fields of two estimates that the solver computes
SameEstimate(r1, r2) ==
    /\ r1.point = r2.point
    /\ r1.confidence = r2.confidence
    /\ r1.error = r2.error
    /\ r1.algorithm = r2.algorithm
    /\ r1.beacon_count = r2.beacon_count

\* C11, as stated: two calls with the same signals, options and
\* request_timestamp_ms on the same beacons and model return the same code
\* and, on success, the same estimate with the same timestamp_ms.
C11_Determinism ==
    Repeated =>
        /\ Again.code = Resp.code
        /\ Resp.code = 200 =>
              /\ SameEstimate(Unwrap(Again.result), Unwrap(Resp.result))
              /\ Unwrap(Again.result).timestamp_ms = Unwrap(Resp.result).timestamp_ms

\* C11, amended: the two calls return the same code and, on success, the same
\* x, y, z, confidence, error, algorithm and beacon_count; timestamp_ms is the
\* same, and is the request's, when the request carries request_timestamp_ms.
C11_DeterminismUpToClock ==
    Repeated =>
        /\ Again.code = Resp.code
        /\ Again.status = Resp.status
        /\ Resp.code = 200 =>
              /\ SameEstimate(Unwrap(Again.result), Unwrap(Resp.result))
              /\ IsSome(Req.request_timestamp_ms) =>
                    /\ Unwrap(Resp.result).timestamp_ms = Req.request_timestamp_ms
                    /\ Unwrap(Again.result).timestamp_ms = Req.request_timestamp_ms

C11_Witness ==
    /\ Repeated
    /\ Resp.code = 200
    /\ Again.code = 200
    /\ IsSome(Req.request_timestamp_ms)

----------------------------------------------------------------------------
(* Two requests that differ in fields positioning should not read *)

\* the responses the handler may give to req as it stands now, over the
\* readings of the clock
AnswersTo(req) ==
    {HandleWith(beacons, rssi_model, residual, req, now).response : now \in ClockTimes}

CodeAndEstimate(resp) == [code |-> resp.code, result |-> resp.result]

\* C12, as stated: a request that differs from the handled one only in
\* client_id, the empty string included, gets the same code and estimate.
C12_ClientIdPassesThrough ==
    Handled =>
        \A c \in ClientIds :
            \E r \in AnswersTo([Req EXCEPT !.client_id = c]) :
                CodeAndEstimate(r) = CodeAndEstimate(Resp)

\* C12, amended: among non-empty client ids the code and the estimate do not
\* depend on client_id, and a 200 or 420 response echoes the id it was given;
\* a request with an empty client_id is answered 400.
C12_NonEmptyClientIdPassesThrough ==
    Handled =>
        /\ Req.client_id = "" =>
              /\ Resp.code = 400
              /\ Unwrap(Resp.error_details).kind = "client_id_empty"
        /\ Req.client_id # "" =>
              \A c \in ClientIds \ {""} :
                  \E r \in AnswersTo([Req EXCEPT !.client_id = c]) :
                      /\ CodeAndEstimate(r) = CodeAndEstimate(Resp)
                      /\ r.error_details = Resp.error_details
                      /\ r.code # 400 => r.client_id = Some(c)

C12_Witness ==
    /\ Handled
    /\ Req.client_id = "device_002"
    /\ Resp.code = 200
    /\ Resp.client_id = Some("device_002")
    /\ \E r \in AnswersTo([Req EXCEPT !.client_id = "device_001"]) :
           r.code = 200 /\ r.client_id = Some("device_001")

\* a signal list with the fields positioning does not read taken off
Undecorated(sigs) ==
    [i \in 1..Len(sigs) |-> BeaconSignal_new(sigs[i].beacon_id, sigs[i].rssi)]

\* req with its flags, device id, signal dressing and options.extra replaced
Ancillary(req, kf, sm, dev, deco, ex) ==
    [req EXCEPT !.options.enable_kalman_filter = kf,
                !.options.enable_smoothing = sm,
                !.options.extra = ex,
                !.device_id = dev,
                !.signals = Decorate(Undecorated(req.signals), deco)]

\* every request that differs from req in those fields only
AncillaryVariants(req) ==
    {Ancillary(req, kf, sm, dev, deco, ex)
        : kf \in BOOLEAN, sm \in BOOLEAN, dev \in {None, Some("phone")},
          deco \in Decorations, ex \in {None, Some("note")}}

\* the variants that differ from req in one of those fields
AncillaryNeighbours(req) ==
    {[req EXCEPT !.options.enable_kalman_filter = ~@],
     [req EXCEPT !.options.enable_smoothing = ~@],
     [req EXCEPT !.options.extra = IF IsSome(@) THEN None ELSE Some("note")],
     [req EXCEPT !.device_id = IF IsSome(@) THEN None ELSE Some("phone")]}
    \cup {[req EXCEPT !.signals = Decorate(Undecorated(req.signals), deco)]
            : deco \in Decorations}

\* C13: a request that differs from the handled one only in
\* enable_kalman_filter, enable_smoothing, device_id, the signals' beacon_name,
\* timestamp_ms or extra, or options.extra gets the same response: every such
\* variant of a request on the base signals, and every one-field variant of
\* any request.
C13_FlagsAreNoOps ==
    Handled =>
        \A v \in (IF Undecorated(Req.signals) = BaseSignals
                  THEN AncillaryVariants(Req) ELSE AncillaryNeighbours(Req)) :
            \E r \in AnswersTo(v) : r = Resp

C13_Witness ==
    /\ Handled
    /\ Resp.code = 200
    /\ ~Req.options.enable_kalman_filter
    /\ Req.options.enable_smoothing
    /\ IsSome(Req.device_id)
    /\ IsSome(Req.signals[1].beacon_name)
    /\ \E r \in AnswersTo(LocationRequest_new(Req.client_id, Undecorated(Req.signals))) :
           r = Resp

----------------------------------------------------------------------------
(* The shape of a response *)

WellShaped(r, client_id) ==
    /\ <<r.code, r.status>> \in
          {<<200, "success">>, <<400, "bad_request">>, <<420, "positioning_failed">>}
    /\ IsSome(r.result) <=> r.code = 200
    /\ IsSome(r.error_details) <=> r.code # 200
    /\ r.code \in {200, 420} => r.client_id = Some(client_id)
    /\ r.code = 400 => r.client_id = None

\* C14: every response of handle_positioning_request is (200, success),
\* (400, bad_request) or (420, positioning_failed); it has a result exactly
\* when its code is 200 and error_details exactly when it is not; client_id is
\* echoed on 200 and 420 and absent on 400.
C14_ResponseShape ==
    /\ IsSome(request) /\ IsSome(response) => WellShaped(Resp, Req.client_id)
    /\ IsSome(request) /\ IsSome(again) => WellShaped(Again, Req.client_id)

C14_Witness ==
    /\ Handled
    /\ Resp.code = 420
    /\ Resp.status = "positioning_failed"
    /\ Resp.client_id = Some("device_001")
    /\ IsSome(Resp.error_details)
    /\ IsNone(Resp.result)

----------------------------------------------------------------------------
(* The handler across calls *)

\* C15: a call of handle_positioning_request, whatever its outcome, leaves
\* the handler's beacons and RSSI model as they were, and every response,
\* also that of a call made after a failed one, is the response a handler
\* with the present beacons and model gives to the request.
C15_SideEffectFree ==
    /\ [][(response' # response \/ again' # again)
            => (beacons' = beacons /\ rssi_model' = rssi_model)]_vars
    /\ [](Handled => \E r \in AnswersTo(Req) : r = Resp)
    /\ [](Repeated => \E r \in AnswersTo(Req) : r = Again)

C15_Witness ==
    /\ Repeated
    /\ Resp.code = 420
    /\ Again.code = 420
    /\ beacons = {"A", "B", "C", "D"}
    /\ rssi_model = RSSIModel_log_distance(-50, 2, "m")

----------------------------------------------------------------------------
(* The estimate in a success response *)

Result == Unwrap(Resp.result)

\* C16: in every success response the confidence is between 0 and 1 (0 and
\* 1000 per mille) and the error is not negative.
C16_ConfidenceAndErrorRange ==
    (Handled /\ Resp.code = 200) =>
        /\ 0 <= Result.confidence /\ Result.confidence <= 1000
        /\ Result.error >= 0

\* a success whose residual exceeds the largest distance: the confidence is
\* clamped to 0
C16_Witness ==
    /\ Handled /\ Resp.code = 200
    /\ Result.confidence = 0
    /\ Result.error > 7943

\* C17: in every success response result.algorithm is the solver that ran:
\* basic, weighted or least_squares, never "auto", and the requested name
\* when the request names one of the three; result.beacon_count is the number
\* of registered beacons among the request's signals, and at least 3.
C17_AlgorithmAndBeaconCount ==
    (Handled /\ Resp.code = 200) =>
        /\ Result.algorithm \in Methods
        /\ Result.algorithm = ArmRuns(arm)
        /\ Req.options.algorithm \in Methods => Result.algorithm = Req.options.algorithm
        /\ Result.beacon_count = Cardinality(Resolved)
        /\ Result.beacon_count >= 3

C17_Witness ==
    /\ Handled /\ Resp.code = 200
    /\ Req.options.algorithm = "auto"
    /\ Result.algorithm = "least_squares"
    /\ Len(Req.signals) = 4
    /\ Result.beacon_count = 3

----------------------------------------------------------------------------
(* The beacon repository, one operation at a time *)

BaseLocation == Location_new(100, 200, 150, "1F", "area_001")

\* beacons that pass Beacon::validate: the first default beacon as it is and
\* changed, the second changed, and a beacon that is not in a new repository,
\* with powers at both ends of the range
ValidBeacons ==
    {Beacon_new(imp[1], DefaultUuid, 10000, imp[2], BaseLocation, imp[3], 1000, "active")
        : imp \in {<<"beacon_001", 12345, -59>>, <<"beacon_001", 777, -100>>,
                   <<"beacon_002", 778, 0>>,
                   <<"beacon_005", 777, -100>>, <<"beacon_005", 778, 0>>}}

\* beacons with one field that fails Beacon::validate, and some with two
InvalidBeacons ==
    UNION {{ [b EXCEPT !.id = ""],
             [b EXCEPT !.uuid = ""],
             [b EXCEPT !.power = -101],
             [b EXCEPT !.power = 1],
             [b EXCEPT !.interval = 0],
             [b EXCEPT !.location.floor = ""],
             [b EXCEPT !.location.area_id = ""],
             [b EXCEPT !.id = "", !.uuid = ""],
             [b EXCEPT !.interval = 0, !.location.floor = ""] }
           : b \in {Beacon_new(id, DefaultUuid, 10000, 777, BaseLocation, -59, 1000, "active")
                      : id \in {"beacon_001", "beacon_005"}}}

BeaconInputs == ValidBeacons \cup InvalidBeacons

RepoIds ==
    {"beacon_001", "beacon_002", "beacon_003", "beacon_004", "beacon_005",
     "beacon_009", ""}

Done(op, arg, result) == [op |-> op, arg |-> arg, result |-> Some(result)]

Create(b) ==
    /\ LET r == BeaconRepository_create(data, b)
       IN  /\ data' = r.data
           /\ last' = Done("create", Some(b), r.result)
    /\ UNCHANGED <<beacons, rssi_model, residual, seqvars, srvvars, concvars>>

Update(b) ==
    /\ LET r == BeaconRepository_update(data, b)
       IN  /\ data' = r.data
           /\ last' = Done("update", Some(b), r.result)
    /\ UNCHANGED <<beacons, rssi_model, residual, seqvars, srvvars, concvars>>

Delete(id) ==
    /\ LET r == BeaconRepository_delete(data, id)
       IN  /\ data' = r.data
           /\ last' = Done("delete", Some(id), r.result)
    /\ UNCHANGED <<beacons, rssi_model, residual, seqvars, srvvars, concvars>>

FindAll ==
    /\ \E r \in BeaconRepository_find_all(data) : last' = Done("find_all", None, r)
    /\ UNCHANGED <<data, beacons, rssi_model, residual, seqvars, srvvars, concvars>>

FindById(id) ==
    /\ last' = Done("find_by_id", Some(id), BeaconRepository_find_by_id(data, id))
    /\ UNCHANGED <<data, beacons, rssi_model, residual, seqvars, srvvars, concvars>>

Count ==
    /\ last' = Done("count", None, BeaconRepository_count(data))
    /\ UNCHANGED <<data, beacons, rssi_model, residual, seqvars, srvvars, concvars>>

RepoNext ==
    \/ \E b \in BeaconInputs : Create(b)
    \/ \E b \in BeaconInputs : Update(b)
    \/ \E id \in RepoIds : Delete(id)
    \/ FindAll
    \/ \E id \in RepoIds : FindById(id)
    \/ Count

SpecRepo == Init /\ [][RepoNext]_vars

\* the beacons find_all returned, when it was the last operation
Listing == Unwrap(last.result).value

\* C18: a new repository holds exactly beacon_001 .. beacon_004; after any
\* operations, what find_all returns has count() elements, no two with the
\* same id, and find_by_id(id) is Some(b) exactly for the ids in it, with
\* b.id = id.
C18_RepositoryConsistent ==
    /\ last.op = "new" =>
          /\ DOMAIN data = {"beacon_001", "beacon_002", "beacon_003", "beacon_004"}
          /\ \A k \in DOMAIN data : data[k].id = k
    /\ last.op = "find_all" =>
          /\ BeaconRepository_count(data).value = Len(Listing)
          /\ \A i, j \in 1..Len(Listing) : Listing[i].id = Listing[j].id => i = j
          /\ \A id \in RepoIds :
                LET found == BeaconRepository_find_by_id(data, id).value
                IN  /\ IsSome(found) <=> \E i \in 1..Len(Listing) : Listing[i].id = id
                    /\ IsSome(found) => Unwrap(found).id = id

\* find_all after a create, a delete and a replacement
C18_Witness ==
    /\ last.op = "find_all"
    /\ Len(Listing) = 4
    /\ "beacon_005" \in DOMAIN data
    /\ "beacon_003" \notin DOMAIN data
    /\ "beacon_001" \in DOMAIN data
    /\ data["beacon_001"].minor = 777

----------------------------------------------------------------------------
(* The order of validation *)

SignalFails(sig) == sig.beacon_id = "" \/ sig.rssi > 0

RequestInvalid(req) ==
    \/ req.client_id = ""
    \/ Len(req.signals) < 3
    \/ \E i \in 1..Len(req.signals) : SignalFails(req.signals[i])

OptionsInvalid(opts) ==
    \/ opts.min_confidence < 0 \/ opts.min_confidence > 1000
    \/ opts.algorithm \notin SupportedAlgorithms

Reported == Unwrap(Resp.error_details)

\* C19: the first failing check is the one reported.  A request error is
\* reported before an options error; within the request, the empty client_id
\* comes before the empty signal list, that before fewer than 3 signals, that
\* before the signals; the signal reported is the first that fails, and its
\* empty beacon_id is reported before its rssi.
C19_ValidationOrder ==
    Handled =>
        /\ (RequestInvalid(Req) \/ OptionsInvalid(Req.options)) => Resp.code = 400
        /\ RequestInvalid(Req) =>
              Reported.kind \notin {"min_confidence_range", "unsupported_algorithm"}
        /\ Req.client_id = "" => Reported.kind = "client_id_empty"
        /\ (Req.client_id # "" /\ Len(Req.signals) = 0) =>
              Reported.kind = "signals_empty"
        /\ (Req.client_id # "" /\ Len(Req.signals) \in {1, 2}) =>
              Reported.kind = "too_few_signals"
        /\ (Req.client_id # "" /\ Len(Req.signals) >= 3) =>
              \A i \in 1..Len(Req.signals) :
                 (SignalFails(Req.signals[i])
                    /\ \A j \in 1..(i - 1) : ~SignalFails(Req.signals[j])) =>
                     /\ Reported.idx = i - 1
                     /\ Reported.kind = IF Req.signals[i].beacon_id = ""
                                        THEN "beacon_id_empty"
                                        ELSE "rssi_not_negative"
        /\ (~RequestInvalid(Req) /\ OptionsInvalid(Req.options)) =>
              Reported.kind = IF Req.options.min_confidence < 0
                                 \/ Req.options.min_confidence > 1000
                              THEN "min_confidence_range"
                              ELSE "unsupported_algorithm"

\* a request that fails in its options and in three signals: the second
\* signal, with an empty id and a positive rssi, is reported for its id
C19_Witness ==
    /\ Handled
    /\ OptionsInvalid(Req.options)
    /\ Len(Req.signals) = 4
    /\ ~SignalFails(Req.signals[1])
    /\ Req.signals[2].beacon_id = "" /\ Req.signals[2].rssi > 0
    /\ Req.signals[3].beacon_id # "" /\ Req.signals[3].rssi > 0
    /\ Req.signals[4].beacon_id = ""
    /\ Resp.code = 400
    /\ Reported.kind = "beacon_id_empty"
    /\ Reported.idx = 1

----------------------------------------------------------------------------
(* The HTTP router *)

\* the body of a /locate request is a LocationRequest
BodyParses(cl) == IsSome(cl.body) /\ DeserializeRequest(Unwrap(cl.body)).ok

\* C20: GET /health is answered 200; POST /locate goes to the locate handler,
\* whose reply has the HTTP status equal to the code of its JSON body, one of
\* 200, 400, 420; every other method and path is answered 404; a /locate body
\* that is not a LocationRequest is answered 400 once it has arrived, and the
\* request never waits for nor holds the handler lock.
C20_Router ==
    \A c \in Clients :
        LET cl == client[c]
        IN  /\ cl.pc # "idle" =>
                  cl.route = (IF cl.method = "GET" /\ cl.path = "/health" THEN "health"
                              ELSE IF cl.method = "POST" /\ cl.path = "/locate" THEN "locate"
                              ELSE "not_found")
            /\ (cl.pc = "replied" /\ cl.method = "GET" /\ cl.path = "/health") =>
                  /\ cl.http_status = Some(200)
                  /\ IsSome(cl.health) /\ IsNone(cl.response)
            /\ (cl.pc = "replied" /\ cl.method = "POST" /\ cl.path = "/locate") =>
                  /\ IsSome(cl.response)
                  /\ cl.http_status = Some(Unwrap(cl.response).code)
                  /\ Unwrap(cl.response).code \in {200, 400, 420}
                  /\ BodyParses(cl) =>
                        \E now \in ClockTimes :
                            Unwrap(cl.response) =
                                HandleWith(Unwrap(cl.snap).beacons, Unwrap(cl.snap).model,
                                           residual, Unwrap(cl.request), now).response
            /\ (cl.pc = "replied" /\ ~(cl.method = "GET" /\ cl.path = "/health")
                  /\ ~(cl.method = "POST" /\ cl.path = "/locate")) =>
                  /\ cl.http_status = Some(404)
                  /\ IsNone(cl.snap) /\ IsNone(cl.response) /\ IsNone(cl.health)
            /\ (cl.pc # "idle" /\ cl.method = "POST" /\ cl.path = "/locate"
                  /\ ~BodyParses(cl)) =>
                  /\ cl.pc \in {"reading", "replied"}
                  /\ cl.pc = "reading" <=> IsSome(cl.inflight)
                  /\ cl.pc = "replied" => cl.http_status = Some(400)
                  /\ IsNone(cl.snap)
                  /\ c \notin lock.readers
                  /\ \A i \in 1..Len(lock.queue) : lock.queue[i] # c

\* one request answered 420 by the locate handler, the other, POST /health,
\* answered 404
C20_Witness ==
    /\ client["c1"].pc = "replied"
    /\ client["c1"].route = "locate"
    /\ client["c1"].http_status = Some(420)
    /\ Unwrap(client["c1"].response).code = 420
    /\ client["c2"].pc = "replied"
    /\ client["c2"].method = "POST" /\ client["c2"].path = "/health"
    /\ client["c2"].http_status = Some(404)

----------------------------------------------------------------------------
(* The concurrent server under fair scheduling *)

\* the requests sent when progress is checked: a /locate that parses, one that
\* does not, GET /health, and a request without a route
LiveRequests ==
    {[method |-> "POST", path |-> "/locate", readable |-> TRUE,
      body |-> Some([client_id |-> Some("device_001"), device_id |-> None,
                     signals |-> Some(BaseSignals),
                     request_timestamp_ms |-> Some(1700),
                     options |-> Some(EmptyJsonOptions)])],
     [method |-> "POST", path |-> "/locate", readable |-> TRUE,
      body |-> Some([client_id |-> None, device_id |-> None,
                     signals |-> Some(BaseSignals),
                     request_timestamp_ms |-> None, options |-> None])],
     [method |-> "GET", path |-> "/health", readable |-> TRUE, body |-> None],
     [method |-> "GET", path |-> "/locate", readable |-> TRUE, body |-> None]}

ServerLiveNext ==
    \/ \E c \in Clients : client[c].pc = "idle" /\ \E h \in LiveRequests : Receive(c, h)
    \/ \E c \in Clients : ReadBody(c)
    \/ \E c \in Clients : AcquireRead(c)
    \/ \E c \in Clients : Health(c)
    \/ \E c \in Clients : ReadBeacons(c)
    \/ \E c \in Clients : client[c].pc = "cloned" /\ \E now \in ClockTimes : Compute(c, now)
    \/ \E c \in Clients : Reply(c)
    \/ \E c \in Clients : Close(c)
    \/ BeginWrite
    \/ AcquireWrite
    \/ WriteBeacons({"A", "B", "C", "D"})
    \/ WriteModel(RSSIModel_log_distance(-50, 2, "m"))
    \/ ReleaseWrite

\* the steps the server takes for one request once it has all it waits for
\* from the client; its position allows one of them at a time.  The arrival
\* of a body (ReadBody) is the client's doing and is not among them.
RequestStep(c) ==
    \/ AcquireRead(c)
    \/ Health(c)
    \/ ReadBeacons(c)
    \/ \E now \in ClockTimes : Compute(c, now)
    \/ Reply(c)

\* the runtime polls every task that can run, so a request whose next step
\* stays possible takes it; the lock hands the guard to the waiter at the head
\* of its queue; a writer that holds the write guard drops it
ServerFairness ==
    /\ \A c \in Clients : WF_vars(RequestStep(c))
    /\ WF_vars(AcquireWrite \/ ReleaseWrite)

\* the start-up state with solvers that fit exactly and with solvers of
\* which two fail: requests answered 200 and requests answered 420
LiveProfiles ==
    {p \in NumericProfiles : p.basic \in {Fit(0, FALSE), Fit(250, FALSE)}}

InitLive == Init /\ residual \in LiveProfiles

SpecServerLive == InitLive /\ [][ServerLiveNext]_vars /\ ServerFairness

\* a request has a status exactly when it has been answered, and once
\* answered nothing more happens to it but the end of the connection; a
\* request at the head of the lock's queue can take a read guard whenever no
\* write guard is out, whoever holds read guards
AnsweredOnce ==
    /\ [](\A c \in Clients : client[c].pc = "replied" <=> IsSome(client[c].http_status))
    /\ [][\A c \in Clients :
            client[c].pc = "replied" =>
                (client'[c] = client[c] \/ client'[c] = IdleClient)]_vars

ReadersShare ==
    [](\A c \in Clients :
            (client[c].pc = "waiting" /\ Head(lock.queue) = c /\ wr.pc # "holding")
                => CanRead(lock, c))

\* an answered /health request, and an answered /locate request whose body
\* was a LocationRequest, has held the read guard
AnsweredUnderGuard ==
    [](\A c \in Clients :
            (client[c].pc = "replied"
                /\ (client[c].route = "health" \/ IsSome(client[c].request)))
                => IsSome(client[c].snap))

\* C21 as stated: every request is answered once and never with an error,
\* readers do not exclude one another, and, writers releasing the write guard,
\* every request that has come in is answered in the end.
C21_EveryRequestAnswered ==
    /\ AnsweredOnce
    /\ ReadersShare
    /\ \A c \in Clients : (client[c].pc # "idle") ~> (client[c].pc = "replied")

\* C21: every request is answered at most once and never with an error,
\* readers do not exclude one another, and, writers releasing the write guard,
\* every request that is not waiting for its body is answered in the end: a
\* /health request and a /locate request whose body has arrived and is a
\* LocationRequest are answered under the read guard, any other without it.
C21_AnsweredOnceBodyArrived ==
    /\ AnsweredOnce
    /\ ReadersShare
    /\ AnsweredUnderGuard
    /\ \A c \in Clients :
           (client[c].pc \notin {"idle", "reading"}) ~> (client[c].pc = "replied")

\* two /locate requests hold read guards at the same time
C21_Witness ==
    /\ lock.readers = Clients
    /\ \A c \in Clients : client[c].route = "locate" /\ client[c].pc = "cloned"

(***************************************************************************)
(* The timestamp of an estimate (handlers.rs, step 5)                      *)
(***************************************************************************)

\* C22: in every success response result.timestamp_ms is present; it is the
\* request's request_timestamp_ms when the request carries one, and a reading
\* of the system clock only when the request carries none.
C22_ResultTimestamp ==
    (Handled /\ Resp.code = 200) =>
        /\ IsSome(Result.timestamp_ms)
        /\ IsSome(Req.request_timestamp_ms) =>
               Result.timestamp_ms = Req.request_timestamp_ms
        /\ IsNone(Req.request_timestamp_ms) <=>
               Unwrap(Result.timestamp_ms) \in ClockTimes

\* a success for a request that carries a timestamp: the estimate carries the
\* same one, which no clock reading equals
C22_Witness ==
    /\ Handled /\ Resp.code = 200
    /\ Req.request_timestamp_ms = Some(1700)
    /\ Result.timestamp_ms = Some(1700)
    /\ 1700 \notin ClockTimes

----------------------------------------------------------------------------
(* update and delete of the beacon repository *)

\* the operation a step performs, its argument and its result
Op == last'.op
Arg == Unwrap(last'.arg)
Outcome == Unwrap(last'.result)
Fails(kind) == ~Outcome.ok /\ Outcome.error.kind = kind

\* a successful update keeps the ids and replaces only the beacon of that id
UpdateReplacesOne ==
    (Op = "update" /\ Outcome.ok) =>
        /\ DOMAIN data' = DOMAIN data
        /\ BeaconRepository_count(data') = BeaconRepository_count(data)
        /\ data'[Arg.id] = Arg
        /\ \A k \in DOMAIN data \ {Arg.id} : data'[k] = data[k]

\* delete of an absent id fails with NotFound and changes nothing; a
\* successful delete removes that id and nothing else
DeleteRemovesOne ==
    /\ (Op = "delete" /\ Arg \notin DOMAIN data) =>
           Fails("NotFound") /\ data' = data
    /\ (Op = "delete" /\ Outcome.ok) =>
        /\ Arg \in DOMAIN data
        /\ DOMAIN data' = DOMAIN data \ {Arg}
        /\ BeaconRepository_count(data').value = BeaconRepository_count(data).value - 1
        /\ BeaconRepository_find_by_id(data', Arg) = ROk(None)
        /\ \A k \in DOMAIN data' : data'[k] = data[k]

\* C23 as stated: update and delete of an absent id fail with NotFound and
\* leave the store unchanged, whatever the beacon handed to update; a
\* successful update replaces only that beacon and a successful delete
\* removes exactly that id.
C23_UpdateDeleteAbsentAlwaysNotFound ==
    [][/\ (Op = "update" /\ Arg.id \notin DOMAIN data) =>
              Fails("NotFound") /\ data' = data
       /\ UpdateReplacesOne
       /\ DeleteRemovesOne]_vars

\* C23: update of a beacon that passes Beacon::validate and whose id is absent
\* fails with NotFound, update of any beacon whose id is absent fails and
\* leaves the store unchanged, delete of an absent id fails with NotFound and
\* leaves the store unchanged; a successful update keeps the set of ids and
\* replaces only that beacon; a successful delete removes exactly that id.
C23_UpdateDelete ==
    [][/\ (Op = "update" /\ Arg.id \notin DOMAIN data) =>
              /\ ~Outcome.ok /\ data' = data
              /\ Beacon_validate(Arg).ok => Fails("NotFound")
       /\ UpdateReplacesOne
       /\ DeleteRemovesOne]_vars

\* an update of the absent beacon_005 has just failed with NotFound, after a
\* successful update of beacon_001 and a successful delete of beacon_003
C23_Witness ==
    /\ last.op = "update" /\ Unwrap(last.arg).id = "beacon_005"
    /\ ~Unwrap(last.result).ok /\ Unwrap(last.result).error.kind = "NotFound"
    /\ DOMAIN data = {"beacon_001", "beacon_002", "beacon_004"}
    /\ data["beacon_001"].minor = 777

----------------------------------------------------------------------------
(* create and update validate first *)

\* C24: create and update of a beacon that fails Beacon::validate return that
\* ValidationError and leave the store unchanged, also when update's id is
\* absent; create of a valid beacon returns it, find_by_id of its id then
\* returns it, and when the id was already stored the beacon is replaced, the
\* other beacons and the count staying as they were.
C24_ValidateBeforeStore ==
    [][/\ (Op \in {"create", "update"} /\ ~Beacon_validate(Arg).ok) =>
              /\ Outcome = Beacon_validate(Arg)
              /\ Fails("ValidationError")
              /\ data' = data
       /\ (Op = "create" /\ Beacon_validate(Arg).ok) =>
              /\ Outcome = ROk(Arg)
              /\ BeaconRepository_find_by_id(data', Arg.id) = ROk(Some(Arg))
              /\ \A k \in DOMAIN data \ {Arg.id} :
                     k \in DOMAIN data' /\ data'[k] = data[k]
              /\ Arg.id \in DOMAIN data =>
                     BeaconRepository_count(data') = BeaconRepository_count(data)
              /\ Arg.id \notin DOMAIN data =>
                     BeaconRepository_count(data').value =
                         BeaconRepository_count(data).value + 1]_vars

\* create has just replaced the stored beacon_001 by one with another minor:
\* it returned Ok and the repository still holds its four ids
C24_Witness ==
    /\ last.op = "create" /\ Unwrap(last.result).ok
    /\ Unwrap(last.arg).id = "beacon_001" /\ Unwrap(last.arg).minor = 777
    /\ data["beacon_001"] = Unwrap(last.arg)
    /\ DOMAIN data = {"beacon_001", "beacon_002", "beacon_003", "beacon_004"}

----------------------------------------------------------------------------
(* What the repository stores *)

\* C25: in a new repository and after any create, update and delete, every
\* key of the map is the id of the beacon stored under it, and every stored
\* beacon passes Beacon::validate: id and uuid not empty, power in [-100, 0],
\* interval above 0, floor and area_id not empty.
C25_StoredBeaconsValid ==
    \A k \in DOMAIN data :
        /\ data[k].id = k
        /\ Beacon_validate(data[k]).ok
        /\ data[k].id # "" /\ data[k].uuid # ""
        /\ -100 <= data[k].power /\ data[k].power <= 0
        /\ data[k].interval > 0
        /\ data[k].location.floor # "" /\ data[k].location.area_id # ""

\* a delete has just succeeded in a repository that holds a created
\* beacon_005 at power 0 and an updated beacon_001 at power -100
C25_Witness ==
    /\ last.op = "delete" /\ Unwrap(last.result).ok
    /\ DOMAIN data = {"beacon_001", "beacon_003", "beacon_004", "beacon_005"}
    /\ data["beacon_005"].power = 0
    /\ data["beacon_001"].power = -100

----------------------------------------------------------------------------
(* The beacon repository under concurrent calls: update, delete and        *)
(* find_all run as three tasks, each taking the guard of self.data for the *)
(* whole of its body                                                       *)

\* the beacons handed to the concurrent update: the valid ones, and two that
\* fail validation, one with a stored id and one with an id that is absent
ConcurrentBeacons == ValidBeacons \cup {b \in InvalidBeacons : b.power = 1}

ConcurrentIds == {"beacon_001", "beacon_002", "beacon_005"}

\* the guard is dropped and the call is entered in the history
Left(t) == Append(history, [by |-> t, data |-> data'])

\* update: beacon.validate()?, then self.data.write().await is asked for
UpdateCall(b) ==
    /\ task["update"].pc = "idle"
    /\ LET v == Beacon_validate(b)
       IN  IF ~v.ok
           THEN /\ task' = [task EXCEPT !["update"].pc = "returned",
                                        !["update"].arg = Some(b),
                                        !["update"].result = Some(v)]
                /\ UNCHANGED rwlock
           ELSE /\ task' = [task EXCEPT !["update"].pc = "waiting",
                                        !["update"].arg = Some(b)]
                /\ rwlock' = [rwlock EXCEPT !.queue = Append(@, "update")]
    /\ UNCHANGED <<beacons, rssi_model, residual, seqvars, srvvars, data, last, history>>

\* the write guard is given to update
UpdateLock ==
    /\ task["update"].pc = "waiting"
    /\ CanWrite(rwlock, "update")
    /\ rwlock' = [rwlock EXCEPT !.queue = Tail(@), !.writing = TRUE]
    /\ task' = [task EXCEPT !["update"].pc = "locked"]
    /\ UNCHANGED <<beacons, rssi_model, residual, seqvars, srvvars, data, last, history>>

\* if !data.contains_key(&beacon.id) { return Err(NotFound) }
UpdateCheck ==
    /\ task["update"].pc = "locked"
    /\ LET beacon == Unwrap(task["update"].arg)
       IN  IF beacon.id \notin DOMAIN data
           THEN /\ task' = [task EXCEPT !["update"].pc = "returned",
                                        !["update"].result =
                                            Some(RErr(AppError_NotFound(beacon.id)))]
                /\ rwlock' = [rwlock EXCEPT !.writing = FALSE]
                /\ data' = data
                /\ history' = Left("update")
           ELSE /\ task' = [task EXCEPT !["update"].pc = "found"]
                /\ UNCHANGED <<rwlock, data, history>>
    /\ UNCHANGED <<beacons, rssi_model, residual, seqvars, srvvars, last>>

\* data.insert(beacon.id.clone(), beacon.clone()); Ok(beacon)
UpdateInsert ==
    /\ task["update"].pc = "found"
    /\ LET beacon == Unwrap(task["update"].arg)
       IN  /\ data' = MapInsert(data, beacon.id, beacon)
           /\ task' = [task EXCEPT !["update"].pc = "returned",
                                   !["update"].result = Some(ROk(beacon))]
    /\ rwlock' = [rwlock EXCEPT !.writing = FALSE]
    /\ history' = Left("update")
    /\ UNCHANGED <<beacons, rssi_model, residual, seqvars, srvvars, last>>

\* delete: self.data.write().await is asked for
DeleteCall(id) ==
    /\ task["delete"].pc = "idle"
    /\ task' = [task EXCEPT !["delete"].pc = "waiting", !["delete"].arg = Some(id)]
    /\ rwlock' = [rwlock EXCEPT !.queue = Append(@, "delete")]
    /\ UNCHANGED <<beacons, rssi_model, residual, seqvars, srvvars, data, last, history>>

\* the write guard is given to delete
DeleteLock ==
    /\ task["delete"].pc = "waiting"
    /\ CanWrite(rwlock, "delete")
    /\ rwlock' = [rwlock EXCEPT !.queue = Tail(@), !.writing = TRUE]
    /\ task' = [task EXCEPT !["delete"].pc = "locked"]
    /\ UNCHANGED <<beacons, rssi_model, residual, seqvars, srvvars, data, last, history>>

\* if data.remove(id).is_none() { return Err(NotFound) }  Ok(())
DeleteRemove ==
    /\ task["delete"].pc = "locked"
    /\ LET id == Unwrap(task["delete"].arg)
       IN  IF id \notin DOMAIN data
           THEN /\ data' = data
                /\ task' = [task EXCEPT !["delete"].pc = "returned",
                                        !["delete"].result =
                                            Some(RErr(AppError_NotFound(id)))]
           ELSE /\ data' = MapRemove(data, id)
                /\ task' = [task EXCEPT !["delete"].pc = "returned",
                                        !["delete"].result = Some(ROk("unit"))]
    /\ rwlock' = [rwlock EXCEPT !.writing = FALSE]
    /\ history' = Left("delete")
    /\ UNCHANGED <<beacons, rssi_model, residual, seqvars, srvvars, last>>

\* find_all: self.data.read().await is asked for
FindAllCall ==
    /\ task["find_all"].pc = "idle"
    /\ task' = [task EXCEPT !["find_all"].pc = "waiting"]
    /\ rwlock' = [rwlock EXCEPT !.queue = Append(@, "find_all")]
    /\ UNCHANGED <<beacons, rssi_model, residual, seqvars, srvvars, data, last, history>>

\* the read guard is given; data.values() starts over the keys of the map
FindAllLock ==
    /\ task["find_all"].pc = "waiting"
    /\ CanRead(rwlock, "find_all")
    /\ rwlock' = [rwlock EXCEPT !.queue = Tail(@), !.readers = @ \cup {"find_all"}]
    /\ task' = [task EXCEPT !["find_all"].pc = "iterating",
                            !["find_all"].keys = DOMAIN data]
    /\ UNCHANGED <<beacons, rssi_model, residual, seqvars, srvvars, data, last, history>>

\* .cloned(): the iterator hands out the next value, in the map's order
FindAllNext ==
    /\ task["find_all"].pc = "iterating"
    /\ \E k \in task["find_all"].keys :
          task' = [task EXCEPT !["find_all"].keys = @ \ {k},
                               !["find_all"].seen =
                                   IF k \in DOMAIN data THEN Append(@, data[k]) ELSE @]
    /\ UNCHANGED <<beacons, rssi_model, residual, seqvars, srvvars, data, last,
                   rwlock, history>>

\* .collect(): Ok(list), and the read guard is dropped
FindAllReturn ==
    /\ task["find_all"].pc = "iterating"
    /\ task["find_all"].keys = {}
    /\ task' = [task EXCEPT !["find_all"].pc = "returned",
                            !["find_all"].result = Some(ROk(task["find_all"].seen))]
    /\ rwlock' = [rwlock EXCEPT !.readers = @ \ {"find_all"}]
    /\ UNCHANGED <<beacons, rssi_model, residual, seqvars, srvvars, data, last, history>>

RepoConcurrentNext ==
    \/ task["update"].pc = "idle" /\ \E b \in ConcurrentBeacons : UpdateCall(b)
    \/ UpdateLock
    \/ UpdateCheck
    \/ UpdateInsert
    \/ task["delete"].pc = "idle" /\ \E id \in ConcurrentIds : DeleteCall(id)
    \/ DeleteLock
    \/ DeleteRemove
    \/ FindAllCall
    \/ FindAllLock
    \/ FindAllNext
    \/ FindAllReturn

SpecRepoConcurrent == Init /\ [][RepoConcurrentNext]_vars

\* the three concurrent calls
Updating == task["update"]
Deleting == task["delete"]
Finding == task["find_all"]

Returned(t) == task[t].pc = "returned"

\* call a left the write guard before call b did
Before(a, b) ==
    \E i, j \in 1..Len(history) :
        i < j /\ history[i].by = a /\ history[j].by = b

\* every call that left the write guard did to the map it found what the
\* whole operation does, and returned what the whole operation returns
Atomic ==
    \A i \in 2..Len(history) :
        /\ history[i].by = "update" =>
               Returned("update") /\
               BeaconRepository_update(history[i - 1].data, Unwrap(Updating.arg))
                   = [data |-> history[i].data, result |-> Unwrap(Updating.result)]
        /\ history[i].by = "delete" =>
               Returned("delete") /\
               BeaconRepository_delete(history[i - 1].data, Unwrap(Deleting.arg))
                   = [data |-> history[i].data, result |-> Unwrap(Deleting.result)]

\* update(b) and delete(b.id) have both been called, on an id that a new
\* repository holds
Racing ==
    /\ IsSome(Updating.arg) /\ IsSome(Deleting.arg)
    /\ Unwrap(Deleting.arg) = Unwrap(Updating.arg).id
    /\ Unwrap(Deleting.arg) \in DOMAIN BeaconRepository_new

\* delete returns Ok, and once both have returned the beacon is absent
DeleteWins ==
    /\ Returned("delete") => Unwrap(Deleting.result) = ROk("unit")
    /\ (Returned("delete") /\ Returned("update")) =>
           Unwrap(Deleting.arg) \notin DOMAIN data

\* update succeeded before the delete, or returned NotFound after it
UpdateBeforeOrNotFound ==
    LET r == Unwrap(Updating.result)
    IN  \/ r = ROk(Unwrap(Updating.arg)) /\ ~Before("delete", "update")
        \/ /\ r = RErr(AppError_NotFound(Unwrap(Updating.arg).id))
           /\ Before("delete", "update")

\* update returned the ValidationError of a beacon that fails validation, and
\* never asked for the guard
UpdateRejected ==
    /\ ~Beacon_validate(Unwrap(Updating.arg)).ok
    /\ Unwrap(Updating.result) = Beacon_validate(Unwrap(Updating.arg))
    /\ \A i \in 1..Len(history) : history[i].by # "update"

\* what find_all returned lists the map some call left behind
ListsAWholeStore ==
    Returned("find_all") =>
        \E i \in 1..Len(history) :
            Unwrap(Finding.result) \in BeaconRepository_find_all(history[i].data)

\* C26 as stated: the calls are atomic; when update(b) races delete(b.id) on a
\* stored id, delete returns Ok, the beacon is absent at the end, and update
\* either succeeded before the delete or returned NotFound after it, whatever
\* b is; find_all returns a map that some whole operation left.
C26_AtomicUpdateOkOrNotFound ==
    /\ Atomic
    /\ Racing => (DeleteWins /\ (Returned("update") => UpdateBeforeOrNotFound))
    /\ ListsAWholeStore

\* C26: the calls are atomic: each acts on the map the call before it left;
\* when update(b) races delete(b.id) on a stored id, delete returns Ok and the
\* beacon is absent at the end: update succeeded before the delete, returned
\* NotFound after it, or, for a b that fails Beacon::validate, returned
\* ValidationError without asking for the guard; find_all returns a map that
\* some whole operation left.
C26_Atomic ==
    /\ Atomic
    /\ Racing => (DeleteWins /\ (Returned("update") =>
                                    (UpdateBeforeOrNotFound \/ UpdateRejected)))
    /\ ListsAWholeStore

\* all three calls have returned, update(b) and delete(b.id) on beacon_001:
\* update succeeded first, find_all listed the four beacons with the updated
\* one, then delete removed it
C26_Witness ==
    /\ \A t \in RepoTasks : Returned(t)
    /\ Racing /\ Unwrap(Deleting.arg) = "beacon_001"
    /\ Unwrap(Updating.result).ok /\ Unwrap(Deleting.result).ok
    /\ Len(Unwrap(Finding.result).value) = 4
    /\ \E i \in 1..4 : Unwrap(Finding.result).value[i] = Unwrap(Updating.arg)
    /\ Unwrap(Updating.arg).minor = 777
    /\ DOMAIN data = {"beacon_002", "beacon_003", "beacon_004"}

====
